---- MODULE Spec2Model ----
(***************************************************************************)
(* Model of OdooUpgrader (itbrasil-odoo/OdooUpgrader).                     *)
(*                                                                         *)
(* Components, each with its own specification over the shared variables:  *)
(*   SpecRun     OdooUpgrader.run, core.py (pipeline, upgrade loop,        *)
(*               handlers, finally/cleanup, process kill and restart)      *)
(*   SpecCleanup OdooUpgrader.cleanup called in an arbitrary directory     *)
(*   SpecStep    UpgradeStepService.run_upgrade_step (retry loop)          *)
(*   SpecState   StateService (state file, save, step mutators, crashes)   *)
(*   SpecArchive ArchiveService.safe_extract_zip                           *)
(*   SpecNet     ValidationService.validate_source_accessibility and       *)
(*               DownloadService.download_file                             *)
(*   SpecContext OdooUpgrader._build_run_context, one call per run         *)
(*   SpecRestore DatabaseService._restore_sql_dump_with_compat             *)
(*   SpecCommand CommandRunner.run                                         *)
(*   SpecManifest ManifestService                                          *)
(*   SpecCache   UpgradeStepService.ensure_openupgrade_cache               *)
(*   SpecVersionProbe DatabaseService.get_current_version                  *)
(*                                                                         *)
(* A version string is modelled as the sequence of its dot-separated       *)
(* integer components: "15.0" is <<15, 0>>, "15.0.1.3" is <<15, 0, 1, 3>>, *)
(* the empty string is << >> and a string packaging cannot parse is        *)
(* <<-1>>.                                                                 *)
(***************************************************************************)
EXTENDS Integers, Sequences, FiniteSets, TLC

\* ------------------------------------------------------------------ bounds
\* lowest and highest major the version probe may report in the model
MinMajor == 9
MaxMajor == 12
\* largest retry_count passed to run_upgrade_step in the model
MaxRetryCount == 2
\* longest steps history a state document holds in the model
MaxHistory == 2
\* the clock stops advancing at this value
MaxClock == 1
\* calls of a cleanup made one after the other
MaxCleanupCalls == 2

\* ------------------------------------------------------- version strings
EmptyStr == << >>
Unparsable == <<-1>>

\* OdooUpgrader.VALID_VERSIONS
VALID_VERSIONS == { <<n, 0>> : n \in 10..18 }

\* packaging.version.parse succeeds on the string
Parses(s) == s # EmptyStr /\ \A i \in DOMAIN s : s[i] >= 0

\* OdooUpgrader.get_version_info: parse, or "0.0" when parsing fails
get_version_info(ver_str) == IF Parses(ver_str) THEN ver_str ELSE <<0, 0>>

\* Version.major of a parsed version
Major(v) == v[1]

\* component i of a release, padded with zeros as packaging compares them
Comp(v, i) == IF i <= Len(v) THEN v[i] ELSE 0

\* Version.__lt__ on release segments
VersionLess(a, b) ==
    \E i \in 1..4 :
        /\ Comp(a, i) < Comp(b, i)
        /\ \A j \in 1..(i - 1) : Comp(a, j) = Comp(b, j)

\* generate_next_version adding two to the major
generate_next_version_Skip(current) ==
    IF Parses(current) THEN <<current[1] + 2, 0>> ELSE <<-2>>

\* OdooUpgrader.generate_next_version ("raise" when neither int() nor
\* version.parse accepts the string)
generate_next_version(current) ==
    IF Parses(current) THEN <<current[1] + 1, 0>> ELSE <<-2>>

\* what DatabaseService/OdooUpgrader.get_current_version may return
ProbeOutputs ==
    {EmptyStr, Unparsable}
        \cup { <<n, 0>> : n \in MinMajor..MaxMajor }
        \cup { <<n, 0, 1, 3>> : n \in MinMajor..MaxMajor }

\* target versions a user may pass (valid ones, 9.0, 19.0, and "12")
TargetInputs ==
    { <<n, 0>> : n \in (MinMajor..MaxMajor) \cup {9, 19} } \cup { <<12>> }

\* ------------------------------------------------------ rendered files
DOCKERFILE == "Dockerfile"
UPGRADE_COMPOSE == "odoo-upgrade-composer.yml"
DB_COMPOSE == "db-composer.yml"
RenderedFiles == {DOCKERFILE, UPGRADE_COMPOSE, DB_COMPOSE}

VARIABLES
    \* --- OdooUpgrader.run
    target_version,   \* self.target_version
    resume,           \* the --resume flag the command line passes
    pc,               \* position of run()
    current_ver_str,  \* local current_ver_str
    seen_majors,      \* local seen_majors
    returned,         \* value of the return statement run() executed, -1 = none
    escaped,          \* an exception left run() from its finally block
    exc,              \* kind of exception the handlers caught ("none")
    calls,            \* operations run() invoked in this process, in order
    observed,         \* strings returned by the version probes, in order
    run_no,           \* 1 = first process, 2 = process restarted after a kill
    completedBefore,  \* operations that completed in the killed process
    \* --- working directory and Docker
    files,            \* rendered files present in the working directory
    dbUp,             \* the DB compose stack is up
    upgradeUp,        \* the upgrade compose stack is up
    cleanups,         \* results of the cleanup() calls, in order
    \* --- UpgradeStepService.run_upgrade_step
    retry_count,      \* argument retry_count
    timeout_set,      \* argument step_timeout_seconds is set
    attempt,          \* loop variable attempt
    s_pc,             \* "off", "loop", "returned" or "raised"
    s_result,         \* the boolean run_upgrade_step returned
    attempts,         \* what happened in each attempt so far
    launches,         \* migration containers launched (Popen succeeded)
    downs,            \* compose-down commands run on the upgrade manifest
    \* --- StateService
    state_file,       \* the file at self.state_file
    temp_file,        \* the run-state-*.json file of the save in progress
    state,            \* the state dict the calling process holds
    st_pc,            \* position of the process inside the state store
    st_ret,           \* how the latest state store call ended
    clock,            \* the UTC clock _now() reads
    disciplined,      \* every call so far followed the checkpoint discipline
    \* --- ArchiveService.safe_extract_zip
    archive,          \* zip_ref.infolist(): the members of the archive
    bad_zip,          \* zipfile cannot read the file at zip_path
    link_exists,      \* the destination already holds a link leaving it
    ar_pc,            \* "off", "open", "audit", "extract", "done" or "failed"
    ar_i,             \* position of the loop over the members
    ar_err,           \* message of the UpgraderError raised ("none")
    written,          \* paths created on disk by the extraction
    \* --- ValidationService and DownloadService
    source,               \* the source location
    extra_addons,         \* the extra addons location (NoLocation: not given)
    allow_insecure_http,  \* ValidationService.allow_insecure_http
    dl_retry_count,       \* the retry count the command line holds
    n_pc,                 \* "off", "ready", "validated" or "downloaded"
    v_error,              \* how validate_source_accessibility ended ("none")
    v_log,                \* warnings and requests of the validation, in order
    dl_call,              \* arguments and transport of the download_file call
    dl_error,             \* how download_file ended ("none")
    dl_log,               \* warnings and requests of the download, in order
    dl_remove_failed,     \* os.remove(dest_path) raised OSError
    dest_file,            \* the file at dest_path
    \* --- OdooUpgrader._build_run_context
    contexts,             \* the run contexts built on this host, in order
    \* --- DatabaseService._restore_sql_dump_with_compat
    db_source,            \* the lines of the dump at dump_path
    db_unsupported,       \* parameters the PostgreSQL server does not know
    db_broken,            \* the dump fails for another reason after its settings
    current_dump,         \* the lines of the file at current_dump_path
    attempted_params,     \* local attempted_params
    pass_number,          \* loop variable pass_number
    db_pc,                \* "off", "loop", "returned" or "raised"
    db_err,               \* the UpgraderError raised
    db_log,               \* the psql runs so far: dump used, exit code, stderr
    db_files,             \* the dump files on disk: path and lines
    \* --- CommandRunner.run
    cr_args,              \* check, capture_output, retry_count, retry codes, timeout
    cr_attempt,           \* loop variable attempt
    cr_pc,                \* "off", "loop", "returned" or "raised"
    cr_result,            \* the CompletedProcess returned
    cr_err,               \* the UpgraderError raised
    cr_log,               \* what each execution of the command did, in order
    \* --- ManifestService
    manifest,             \* self.manifest
    manifest_file,        \* the manifest file on disk
    mf_ret,               \* how the latest mutator ended: "ok", "warned", "OSError"
    mf_faults,            \* number of writes that have failed
    \* --- UpgradeStepService.ensure_openupgrade_cache
    cache,                \* what is at cache_root/<version>, per version
    cache_calls,          \* the calls so far: version, operations, outcome
    \* --- DatabaseService.get_current_version
    vp_answers,           \* what run_cmd does for each of the three queries
    vp_run,               \* the queries run so far, in order
    vp_pc,                \* "off", "loop", "returned" or "raised"
    vp_ret                \* the string returned

runVars == <<target_version, resume, pc, current_ver_str, seen_majors,
             returned, escaped, exc, calls, observed, run_no, completedBefore>>
envVars == <<files, dbUp, upgradeUp, cleanups>>

stepVars == <<retry_count, timeout_set, attempt, s_pc, s_result, attempts,
              launches, downs>>

stateVars == <<state_file, temp_file, state, st_pc, st_ret, clock, disciplined>>

archiveVars == <<archive, bad_zip, link_exists, ar_pc, ar_i, ar_err, written>>

\* the services modelled after the state store
netVars == <<source, extra_addons, allow_insecure_http, dl_retry_count, n_pc,
             v_error, v_log, dl_call, dl_error, dl_log, dl_remove_failed,
             dest_file>>

ctxVars == <<contexts>>

dbVars == <<db_source, db_unsupported, db_broken, current_dump,
            attempted_params, pass_number, db_pc, db_err, db_log, db_files>>

\* the services modelled after the run contexts
crVars == <<cr_args, cr_attempt, cr_pc, cr_result, cr_err, cr_log>>

mfVars == <<manifest, manifest_file, mf_ret, mf_faults>>

cacheVars == <<cache, cache_calls>>

vpVars == <<vp_answers, vp_run, vp_pc, vp_ret>>

laterVars == <<dbVars, crVars, mfVars, cacheVars, vpVars>>

auxVars == <<archiveVars, netVars, ctxVars, laterVars>>

vars == <<runVars, envVars, stepVars, stateVars, auxVars>>

\* what the actions of one component leave alone
nonRunVars == <<stepVars, stateVars, auxVars>>
nonStepVars == <<runVars, envVars, stateVars, auxVars>>
nonStateVars == <<runVars, envVars, stepVars, auxVars>>

\* ------------------------------------------------- OdooUpgrader.cleanup
\* outcome of a command run through _run_cmd(check=False): exit 0, a
\* non-zero exit (logged as a warning), or the command could not be
\* executed at all (_run_cmd raises UpgraderError whatever check is)
CmdResults == {"zero", "nonzero", "execfail"}

\* What a cleanup leaves of a directory holding the files F with the two
\* stacks db/up. run_up and run_db0 tell whether the two compose-down
\* commands are run at all, r_up and r_db are their results, tried the files
\* os.remove is called on, rm_fail the files whose os.remove raises OSError.
CleanupRecord(by, F, db, up, run_up, r_up, run_db0, r_db, tried, rm_fail) ==
    LET raise_up == run_up /\ r_up = "execfail"
        up1 == IF run_up /\ r_up = "zero" THEN FALSE ELSE up
        run_db == ~raise_up /\ run_db0
        raise_db == run_db /\ r_db = "execfail"
        db1 == IF run_db /\ r_db = "zero" THEN FALSE ELSE db
        raised == raise_up \/ raise_db
    IN  [ by |-> by,
          before |-> F,
          dbBefore |-> db,
          upBefore |-> up,
          files |-> IF raised THEN F ELSE (F \ tried) \cup (F \cap rm_fail),
          dbUp |-> db1,
          upgradeUp |-> up1,
          raised |-> raised,
          commands |-> (IF run_up THEN 1 ELSE 0) + (IF run_db THEN 1 ELSE 0),
          removals |-> IF raised THEN {} ELSE F \cap tried,
          rm_failed |-> IF raised THEN {} ELSE F \cap tried \cap rm_fail ]

\* cleanup with the Dockerfile missing from the list of its removal loop
cleanup_KeepsDockerfile(F, db, up, r_up, r_db, rm_fail) ==
    CleanupRecord("cleanup", F, db, up, UPGRADE_COMPOSE \in F, r_up,
                  DB_COMPOSE \in F, r_db, {UPGRADE_COMPOSE, DB_COMPOSE}, rm_fail)

\* OdooUpgrader.cleanup: each compose-down runs only if its manifest exists
cleanup(F, db, up, r_up, r_db, rm_fail) ==
    CleanupRecord("cleanup", F, db, up, UPGRADE_COMPOSE \in F, r_up,
                  DB_COMPOSE \in F, r_db, RenderedFiles, rm_fail)

\* DockerRuntimeService.cleanup_docker_environment: both commands, no removal
cleanup_docker_environment(F, db, up, r_up, r_db) ==
    CleanupRecord("cleanup_docker_environment", F, db, up, TRUE, r_up,
                  TRUE, r_db, {}, {})

\* compose-down on a manifest that is not there cannot succeed
DownResults(F, compose_file) ==
    IF compose_file \in F THEN CmdResults ELSE CmdResults \ {"zero"}

\* every result cleanup() can have in the directory (F, db, up)
CleanupResults(F, db, up) ==
    { cleanup(F, db, up, r_up, r_db, rm_fail) :
        r_up \in CmdResults, r_db \in CmdResults, rm_fail \in SUBSET F }

\* ----------------------------------------------------- OdooUpgrader.run
\* the calls of run() between the target check and the first version probe
PipelineOps ==
    << "validate_docker_environment", "validate_source_accessibility",
       "prepare_environment", "process_extra_addons",
       "create_db_compose_file", "start_db", "wait_for_db",
       "download_or_copy_source", "process_source_file", "restore_database" >>

PipelineNames == { PipelineOps[i] : i \in DOMAIN PipelineOps }

\* what a call can do: return, or raise one of the kinds run() handles
OpOutcomes == {"ok", "UpgraderError", "Exception", "KeyboardInterrupt"}
Failures == OpOutcomes \ {"ok"}

IndexOf(op) == CHOOSE i \in DOMAIN PipelineOps : PipelineOps[i] = op

\* the pipeline without its readiness probe
NextPc_NoWait(op) ==
    IF op = "start_db" THEN "download_or_copy_source"
    ELSE IF IndexOf(op) < Len(PipelineOps)
    THEN PipelineOps[IndexOf(op) + 1]
    ELSE "get_current_version"

NextPc(op) ==
    IF IndexOf(op) < Len(PipelineOps)
    THEN PipelineOps[IndexOf(op) + 1]
    ELSE "get_current_version"

Call(op, arg, ok) == [op |-> op, arg |-> arg, ok |-> ok]

\* the except clauses of run(): every kind of exception returns 1
Handle(kind) ==
    /\ pc' = "finally"
    /\ returned' = 1
    /\ exc' = kind

RunInit ==
    /\ target_version \in TargetInputs
    /\ resume \in BOOLEAN
    /\ pc = "start"
    /\ current_ver_str = EmptyStr
    /\ seen_majors = {}
    /\ returned = -1
    /\ escaped = FALSE
    /\ exc = "none"
    /\ calls = << >>
    /\ observed = << >>
    /\ run_no = 1
    /\ completedBefore = {}

\* run() is not executing
RunIdle ==
    /\ target_version = <<10, 0>>
    /\ resume = FALSE
    /\ pc = "off"
    /\ current_ver_str = EmptyStr
    /\ seen_majors = {}
    /\ returned = -1
    /\ escaped = FALSE
    /\ exc = "none"
    /\ calls = << >>
    /\ observed = << >>
    /\ run_no = 1
    /\ completedBefore = {}

EnvInit ==
    /\ files = {}
    /\ dbUp = FALSE
    /\ upgradeUp = FALSE
    /\ cleanups = << >>

\* CheckTarget without the membership test
CheckTarget_NoCheck ==
    /\ pc = "start"
    /\ pc' = PipelineOps[1]
    /\ UNCHANGED <<returned, exc>>
    /\ UNCHANGED <<target_version, resume, current_ver_str, seen_majors,
                   escaped, calls, observed, run_no, completedBefore>>
    /\ UNCHANGED envVars
    /\ UNCHANGED nonRunVars

\* core.py 1013-1014: the target must be one of VALID_VERSIONS
CheckTarget ==
    /\ pc = "start"
    /\ IF target_version \notin VALID_VERSIONS
       THEN Handle("UpgraderError")
       ELSE /\ pc' = PipelineOps[1]
            /\ UNCHANGED <<returned, exc>>
    /\ UNCHANGED <<target_version, resume, current_ver_str, seen_majors,
                   escaped, calls, observed, run_no, completedBefore>>
    /\ UNCHANGED envVars
    /\ UNCHANGED nonRunVars

\* effect of a pipeline call on the working directory and on Docker
PipelineEnv(op, out) ==
    /\ files' \in
         IF op = "create_db_compose_file"
         THEN IF out = "ok" THEN {files \cup {DB_COMPOSE}}
              ELSE {files, files \cup {DB_COMPOSE}}
         ELSE {files}
    /\ dbUp' \in
         IF op = "start_db"
         THEN IF out = "ok" THEN {TRUE} ELSE {dbUp, TRUE}
         ELSE {dbUp}
    /\ UNCHANGED <<upgradeUp, cleanups>>

\* core.py 1016-1027: one call of the pipeline
PipelineStep ==
    /\ pc \in PipelineNames
    /\ \E out \in OpOutcomes :
        /\ calls' = Append(calls, Call(pc, EmptyStr, out = "ok"))
        /\ PipelineEnv(pc, out)
        /\ IF out = "ok"
           THEN /\ pc' = NextPc(pc)
                /\ UNCHANGED <<returned, exc>>
           ELSE Handle(out)
    /\ UNCHANGED <<target_version, resume, current_ver_str, seen_majors,
                   escaped, observed, run_no, completedBefore>>
    /\ UNCHANGED nonRunVars

\* ProbeAfterRestore without the floor check of core.py 1043-1044
ProbeAfterRestore_NoFloor ==
    /\ pc = "get_current_version"
    /\ \/ \E kind \in Failures :
            /\ calls' = Append(calls, Call("get_current_version", EmptyStr, FALSE))
            /\ Handle(kind)
            /\ UNCHANGED <<current_ver_str, seen_majors, observed>>
       \/ \E out \in ProbeOutputs :
            /\ calls' = Append(calls, Call("get_current_version", EmptyStr, TRUE))
            /\ observed' = Append(observed, out)
            /\ current_ver_str' = out
            /\ seen_majors' = {}
            /\ IF out = EmptyStr
               THEN Handle("UpgraderError")
               ELSE /\ pc' = "loop_head"
                    /\ UNCHANGED <<returned, exc>>
    /\ UNCHANGED <<target_version, resume, escaped, run_no, completedBefore>>
    /\ UNCHANGED envVars
    /\ UNCHANGED nonRunVars

\* core.py 1029-1046: first version probe, empty check, floor check
ProbeAfterRestore ==
    /\ pc = "get_current_version"
    /\ \/ \E kind \in Failures :
            /\ calls' = Append(calls, Call("get_current_version", EmptyStr, FALSE))
            /\ Handle(kind)
            /\ UNCHANGED <<current_ver_str, seen_majors, observed>>
       \/ \E out \in ProbeOutputs :
            /\ calls' = Append(calls, Call("get_current_version", EmptyStr, TRUE))
            /\ observed' = Append(observed, out)
            /\ current_ver_str' = out
            /\ seen_majors' = {}
            /\ IF out = EmptyStr
               THEN Handle("UpgraderError")
               ELSE IF VersionLess(get_version_info(out), get_version_info(<<10, 0>>))
                    THEN Handle("UpgraderError")
                    ELSE /\ pc' = "loop_head"
                         /\ UNCHANGED <<returned, exc>>
    /\ UNCHANGED <<target_version, resume, escaped, run_no, completedBefore>>
    /\ UNCHANGED envVars
    /\ UNCHANGED nonRunVars

\* AfterHead with the "already higher" branch (core.py 1065-1069) missing
AfterHead_EqualOnly(current_ver, target_ver) ==
    IF Major(current_ver) = Major(target_ver)
    THEN "finalize_package"
    ELSE "run_upgrade_step"

\* core.py 1059-1071: where the loop goes once the major is recorded
AfterHead(current_ver, target_ver) ==
    IF Major(current_ver) = Major(target_ver)
    THEN "finalize_package"
    ELSE IF Major(current_ver) > Major(target_ver)
         THEN "finalize_package"
         ELSE "run_upgrade_step"

\* core.py 1048-1069: head of the upgrade loop
LoopHead ==
    /\ pc = "loop_head"
    /\ LET current_ver == get_version_info(current_ver_str)
           target_ver == get_version_info(target_version)
           current_major_marker == Major(current_ver)
       IN  IF current_major_marker \in seen_majors
           THEN /\ Handle("UpgraderError")
                /\ UNCHANGED seen_majors
           ELSE /\ seen_majors' = seen_majors \cup {current_major_marker}
                /\ UNCHANGED <<returned, exc>>
                /\ pc' = AfterHead(current_ver, target_ver)
    /\ UNCHANGED <<target_version, resume, current_ver_str, escaped, calls,
                   observed, run_no, completedBefore>>
    /\ UNCHANGED envVars
    /\ UNCHANGED nonRunVars

\* what OdooUpgrader.run_upgrade_step (core.py 822-931) can do: return True
\* or False, or raise
StepOutcomes == {"true", "false", "UpgraderError", "Exception", "KeyboardInterrupt"}

\* core.py 1071-1082: next version, supported check, migration step
UpgradeStep ==
    /\ pc = "run_upgrade_step"
    /\ LET next_ver_str == generate_next_version(current_ver_str)
       IN  IF next_ver_str \notin VALID_VERSIONS
           THEN /\ Handle("UpgraderError")
                /\ UNCHANGED <<calls, envVars>>
           ELSE \E out \in StepOutcomes, down \in CmdResults :
                /\ calls' = Append(calls, Call("run_upgrade_step", next_ver_str, out = "true"))
                /\ files' = files \cup {DOCKERFILE, UPGRADE_COMPOSE}
                /\ upgradeUp' = ~(out = "true" /\ down = "zero")
                /\ (out = "true") => (down # "execfail")
                /\ UNCHANGED <<dbUp, cleanups>>
                /\ IF out = "true"
                   THEN /\ pc' = "reprobe"
                        /\ UNCHANGED <<returned, exc>>
                   ELSE IF out = "false"
                        THEN Handle("UpgraderError")
                        ELSE Handle(out)
    /\ UNCHANGED <<target_version, resume, current_ver_str, seen_majors,
                   escaped, observed, run_no, completedBefore>>
    /\ UNCHANGED nonRunVars

\* NoProgress written with < instead of <=
NoProgress_Strict(new_ver, current_ver) == Major(new_ver) < Major(current_ver)

\* the progress check of core.py 1092-1095 left out
NoProgress_Off(new_ver, current_ver) == FALSE

\* core.py 1092: the probe after a step shows no progress
NoProgress(new_ver, current_ver) == Major(new_ver) <= Major(current_ver)

\* core.py 1084-1098: probe after the step, empty check, progress check
Reprobe ==
    /\ pc = "reprobe"
    /\ \/ \E kind \in Failures :
            /\ calls' = Append(calls, Call("get_current_version", EmptyStr, FALSE))
            /\ Handle(kind)
            /\ UNCHANGED <<current_ver_str, observed>>
       \/ \E new_ver_str \in ProbeOutputs :
            /\ calls' = Append(calls, Call("get_current_version", EmptyStr, TRUE))
            /\ observed' = Append(observed, new_ver_str)
            /\ IF new_ver_str = EmptyStr
               THEN /\ Handle("UpgraderError")
                    /\ UNCHANGED current_ver_str
               ELSE IF NoProgress(get_version_info(new_ver_str),
                                  get_version_info(current_ver_str))
                    THEN /\ Handle("UpgraderError")
                         /\ UNCHANGED current_ver_str
                    ELSE /\ current_ver_str' = new_ver_str
                         /\ pc' = "loop_head"
                         /\ UNCHANGED <<returned, exc>>
    /\ UNCHANGED <<target_version, resume, seen_majors, escaped, run_no,
                   completedBefore>>
    /\ UNCHANGED envVars
    /\ UNCHANGED nonRunVars

\* core.py 1061/1067 and 933-976: finalize_package
FinalizePackage ==
    /\ pc = "finalize_package"
    /\ \E out \in OpOutcomes :
        /\ calls' = Append(calls, Call("finalize_package", EmptyStr, out = "ok"))
        /\ IF out = "ok"
           THEN /\ pc' = "cleanup_artifacts"
                /\ UNCHANGED <<returned, exc>>
           ELSE Handle(out)
    /\ UNCHANGED <<target_version, resume, current_ver_str, seen_majors,
                   escaped, observed, run_no, completedBefore>>
    /\ UNCHANGED envVars
    /\ UNCHANGED nonRunVars

\* core.py 1062-1063/1068-1069 and 978-982: cleanup_artifacts swallows
\* every Exception; then return 0
CleanupArtifacts ==
    /\ pc = "cleanup_artifacts"
    /\ \E out \in {"ok", "KeyboardInterrupt"} :
        /\ calls' = Append(calls, Call("cleanup_artifacts", EmptyStr, out = "ok"))
        /\ IF out = "ok"
           THEN /\ pc' = "finally"
                /\ returned' = 0
                /\ UNCHANGED exc
           ELSE Handle(out)
    /\ UNCHANGED <<target_version, resume, current_ver_str, seen_majors,
                   escaped, observed, run_no, completedBefore>>
    /\ UNCHANGED envVars
    /\ UNCHANGED nonRunVars

\* core.py 1112-1113: finally: self.cleanup()
Finalise ==
    /\ pc = "finally"
    /\ \E r \in CleanupResults(files, dbUp, upgradeUp) :
        /\ files' = r.files
        /\ dbUp' = r.dbUp
        /\ upgradeUp' = r.upgradeUp
        /\ cleanups' = Append(cleanups, r)
        /\ escaped' = r.raised
        /\ calls' = Append(calls, Call("cleanup", EmptyStr, ~r.raised))
    /\ pc' = "done"
    /\ UNCHANGED <<target_version, resume, current_ver_str, seen_majors,
                   returned, exc, observed, run_no, completedBefore>>
    /\ UNCHANGED nonRunVars

\* the process is killed between two calls of run(): nothing more runs,
\* not even the finally block
Kill ==
    /\ pc \notin {"done", "killed"}
    /\ run_no = 1
    /\ pc' = "killed"
    /\ completedBefore' = completedBefore \cup
           { [op |-> calls[i].op, arg |-> calls[i].arg] :
                 i \in { j \in DOMAIN calls : calls[j].ok } }
    /\ UNCHANGED <<target_version, resume, current_ver_str, seen_majors,
                   returned, escaped, exc, calls, observed, run_no>>
    /\ UNCHANGED envVars
    /\ UNCHANGED nonRunVars

\* a command line holding --resume is started again in the same working
\* directory after the kill
Restart ==
    /\ pc = "killed"
    /\ resume
    /\ pc' = "start"
    /\ run_no' = run_no + 1
    /\ current_ver_str' = EmptyStr
    /\ seen_majors' = {}
    /\ returned' = -1
    /\ escaped' = FALSE
    /\ exc' = "none"
    /\ calls' = << >>
    /\ observed' = << >>
    /\ UNCHANGED <<target_version, resume, completedBefore>>
    /\ UNCHANGED envVars
    /\ UNCHANGED nonRunVars

RunNext ==
    \/ CheckTarget
    \/ PipelineStep
    \/ ProbeAfterRestore
    \/ LoopHead
    \/ UpgradeStep
    \/ Reprobe
    \/ FinalizePackage
    \/ CleanupArtifacts
    \/ Finalise
    \/ Kill
    \/ Restart


\* ------------------------------------------- properties of OdooUpgrader.run
ObsMajor(i) == Major(get_version_info(observed[i]))
TargetMajor == Major(get_version_info(target_version))
CurMajor == Major(get_version_info(current_ver_str))
CallIdx(op) == { i \in DOMAIN calls : calls[i].op = op }
OkIdx(op) == { i \in CallIdx(op) : calls[i].ok }
IsStep(c) == c.op = "run_upgrade_step"
Steps == SelectSeq(calls, IsStep)

\* after the latest version probe run() called nothing but cleanup
NothingAfterLastProbe ==
    \A j \in DOMAIN calls :
        (\A i \in CallIdx("get_current_version") : j > i) => calls[j].op = "cleanup"

\* C1: in a run that returns 0 the majors the probes observed increase
\* strictly, stay below the target until the last one, and the last one
\* reaches the target; a probe after a step that shows a major not above the
\* one before is the last probe, the run returns 1 and calls no further
\* migration step and no packaging.
C1_ProgressLaw ==
    /\ (returned = 0) =>
          /\ Len(observed) >= 1
          /\ \A i \in 1..(Len(observed) - 1) :
                /\ ObsMajor(i) < ObsMajor(i + 1)
                /\ ObsMajor(i) < TargetMajor
          /\ ObsMajor(Len(observed)) >= TargetMajor
    /\ \A i \in 1..(Len(observed) - 1) :
          (ObsMajor(i + 1) <= ObsMajor(i)) =>
              /\ i + 1 = Len(observed)
              /\ returned = 1
              /\ pc \in {"finally", "done", "killed"}
              /\ NothingAfterLastProbe

\* C1 witness: a run that progressed once, then stalled, and ended
C1_Witness ==
    /\ pc = "done"
    /\ Len(observed) = 3
    /\ ObsMajor(2) > ObsMajor(1)
    /\ ObsMajor(3) <= ObsMajor(2)
    /\ returned = 1

\* every migration step is invoked for (major observed before it + 1).0
StepsTargetNextMajor ==
    \A k \in DOMAIN Steps :
        /\ Len(observed) >= k
        /\ Steps[k].arg = <<ObsMajor(k) + 1, 0>>

\* C2 as stated: every migration step is invoked for (current major + 1).0
\* and the loop continues after a step only when the major probed afterwards
\* equals the major before the step plus one.
C2_ExactlyOneMajorPerStep ==
    /\ StepsTargetNextMajor
    /\ (pc = "loop_head" /\ Len(observed) >= 2) =>
          ObsMajor(Len(observed)) = ObsMajor(Len(observed) - 1) + 1

\* C2 amended: every migration step is invoked for (current major + 1).0
\* and the loop continues after a step only when the major probed afterwards
\* is strictly greater than the major before the step.
C2_StepTargetsNextAndLoopNeedsProgress ==
    /\ StepsTargetNextMajor
    /\ (pc = "loop_head" /\ Len(observed) >= 2) =>
          ObsMajor(Len(observed)) > ObsMajor(Len(observed) - 1)

\* C2 witness: the loop continues after a step that moved the database by
\* two majors
C2_Witness ==
    /\ pc = "loop_head"
    /\ Len(observed) = 2
    /\ Len(Steps) = 1
    /\ ObsMajor(2) = ObsMajor(1) + 2

\* C36: the "Upgrade loop detected" abort of the loop head is unreachable:
\* whenever run() stands at the head of the loop the major of
\* current_ver_str is not in seen_majors.
C36_LoopDetectedUnreachable ==
    (pc = "loop_head") => (CurMajor \notin seen_majors)

\* the head of the loop is reached a second time
C36_Witness ==
    /\ pc = "loop_head"
    /\ seen_majors # {}
    /\ Len(Steps) >= 1
    /\ CurMajor \notin seen_majors

\* target major minus the major probed after restore, zero if negative
Distance ==
    IF observed # << >> /\ TargetMajor > ObsMajor(1) THEN TargetMajor - ObsMajor(1) ELSE 0

\* C37: the upgrade loop terminates: run() invokes at most (target major
\* minus major probed after restore) migration steps, none when the database
\* is at or above the target, each for a supported version whose major does
\* not exceed the target major, and then ends.
C37_LoopTerminates ==
    /\ [](/\ Len(Steps) <= Distance
          /\ \A k \in DOMAIN Steps :
                /\ Steps[k].arg \in VALID_VERSIONS
                /\ Major(Steps[k].arg) <= TargetMajor)
    /\ <>[](pc = "done")

\* a run that needed two steps to reach the target has ended
C37_Witness ==
    /\ pc = "done"
    /\ returned = 0
    /\ Len(Steps) = 2
    /\ Distance = 2

\* call i comes after a call of op that returned
After(i, op) == \E j \in OkIdx(op) : j < i

\* the version probes made before call i
ProbesBefore(i) == Cardinality({ j \in CallIdx("get_current_version") : j < i /\ calls[j].ok })

\* C38: the restore does not start before the readiness probe has returned;
\* no migration step is invoked before the restore has returned and a
\* non-empty version has been probed; packaging is not invoked after a
\* failed or non-progressing migration step; and after a call that failed
\* run() calls nothing more of the pipeline (only the cleanup of its finally
\* block).
C38_PipelineOrdering ==
    /\ \A i \in CallIdx("restore_database") : After(i, "wait_for_db")
    /\ \A i \in CallIdx("run_upgrade_step") :
          /\ After(i, "restore_database")
          /\ After(i, "get_current_version")
          /\ observed[1] # EmptyStr
    /\ \A i \in CallIdx("finalize_package") :
          /\ \A j \in CallIdx("run_upgrade_step") : j < i => calls[j].ok
          /\ \A n \in 1..(ProbesBefore(i) - 1) : ObsMajor(n) < ObsMajor(n + 1)
    /\ \A i \in DOMAIN calls :
          ~calls[i].ok => \A j \in DOMAIN calls : j > i => calls[j].op = "cleanup"

\* after one step that worked the second one failed and run() ended
C38_Witness ==
    /\ pc = "done"
    /\ returned = 1
    /\ Len(Steps) = 2
    /\ Steps[1].ok /\ ~Steps[2].ok
    /\ calls[Len(calls)].op = "cleanup"
    /\ calls[Len(calls) - 1].op = "run_upgrade_step"

\* C3 as stated: in a process restarted with resume after a kill, no
\* operation that completed before the kill is executed again.
C3_ResumeSkipsCompletedSteps ==
    (run_no = 2 /\ resume) =>
        \A i \in DOMAIN calls :
            [op |-> calls[i].op, arg |-> calls[i].arg] \notin completedBefore

\* C7 as stated: when run() has ended, cleanup was executed, except after a
\* fatal error with resume enabled, when it was not.
C7_CleanupUnlessResumePreserves ==
    (pc = "done") =>
        IF resume /\ exc \in {"UpgraderError", "Exception"}
        THEN CallIdx("cleanup") = {}
        ELSE CallIdx("cleanup") # {}

\* the head of the loop has recorded a major that reaches the target
HeadReachedTarget ==
    /\ pc \notin {"start", "killed"}
    /\ current_ver_str # EmptyStr
    /\ CurMajor \in seen_majors
    /\ CurMajor >= TargetMajor

C12_ExitCodeZeroOrOne ==
    (pc = "done") =>
        /\ ~escaped
        /\ returned \in {0, 1}
        /\ (returned = 0) => OkIdx("finalize_package") # {}
        /\ (exc # "none") => returned = 1

Lower(k) == IF k = "T" THEN "t" ELSE IF k = "F" THEN "f" ELSE k

\* the evidence of an attempt: the tail buffer (blank lines are never
\* appended to it) and the delta of output/odoo.log since the attempt began
Evidences ==
    { [tail |-> {}, delta |-> {}],
      [tail |-> {}, delta |-> {" "}],
      [tail |-> {"x"}, delta |-> {}],
      [tail |-> {"T"}, delta |-> {"x"}],
      [tail |-> {}, delta |-> {"t"}],
      [tail |-> {"t"}, delta |-> {"F"}],
      [tail |-> {"x"}, delta |-> {"f"}] }

\* upgrade_step.py 375-377: evidence text from the tail and the log delta
EvidenceText(e) == e.tail \cup e.delta

\* _is_transient_failure without evidence.lower()
_is_transient_failure_CaseSensitive(evidence) ==
    IF evidence \subseteq {" "}
    THEN FALSE
    ELSE IF "f" \in evidence
         THEN FALSE
         ELSE "t" \in evidence

\* UpgradeStepService._is_transient_failure
_is_transient_failure(evidence) ==
    LET text == { Lower(k) : k \in evidence }
    IN  IF text \subseteq {" "}
        THEN FALSE
        ELSE IF "f" \in text
             THEN FALSE
             ELSE "t" \in text

\* max_attempts computed as max(1, retry_count + 2)
max_attempts_OneMore == IF retry_count + 2 > 1 THEN retry_count + 2 ELSE 1

\* upgrade_step.py 265: max_attempts = max(1, retry_count + 1)
max_attempts == IF retry_count + 1 > 1 THEN retry_count + 1 ELSE 1

\* how one attempt can go (upgrade_step.py 299-434)
AttemptKinds ==
    { "popen_failed", "no_stdout", "timeout", "nonzero_exit",
      "inspect_failed", "inspect_invalid", "container_nonzero", "success" }

NoEvidence == [tail |-> {}, delta |-> {}]

\* what an attempt saw: the exit code of `compose up`, the exit code of
\* `docker inspect` (-1: not run) and the characters it printed
StdOuts ==
    { << >>, <<"\n">>, <<"0", "\n">>, <<" ", "0">>, <<"0", "0">>, <<"1", "\n">>,
      <<"x">> }
Observations ==
    { [compose_rc |-> 1, inspect_rc |-> -1, stdout |-> << >>],
      [compose_rc |-> 0, inspect_rc |-> 1, stdout |-> << >>] }
    \cup [compose_rc : {0}, inspect_rc : {0}, stdout : StdOuts]
NoObservation == [compose_rc |-> -1, inspect_rc |-> -1, stdout |-> << >>]

RECURSIVE lstrip(_)
lstrip(text) ==
    IF text # << >> /\ Head(text) \in {" ", "\n"} THEN lstrip(Tail(text)) ELSE text

RECURSIVE rstrip(_)
rstrip(text) ==
    IF text # << >> /\ text[Len(text)] \in {" ", "\n"}
    THEN rstrip(SubSeq(text, 1, Len(text) - 1))
    ELSE text

\* str.strip()
strip(text) == lstrip(rstrip(text))

InvalidInt == -1
Digit(c) == IF c = "0" THEN 0 ELSE 1

RECURSIVE IntValue(_, _)
IntValue(acc, text) ==
    IF text = << >> THEN acc ELSE IntValue(10 * acc + Digit(Head(text)), Tail(text))

\* int(text): ValueError is InvalidInt
int(text) ==
    IF text # << >> /\ \A i \in DOMAIN text : text[i] \in {"0", "1"}
    THEN IntValue(0, text)
    ELSE InvalidInt

\* the inspected exit code with an empty output read as 0
exit_code_EmptyIsZero(stdout) ==
    int(IF strip(stdout) = << >> THEN <<"0">> ELSE strip(stdout))

\* upgrade_step.py 413: int(inspect_result.stdout.strip() or "1")
exit_code(stdout) ==
    int(IF strip(stdout) = << >> THEN <<"1">> ELSE strip(stdout))

\* upgrade_step.py 354-434: the branch an attempt that was not timed out takes
Outcome(obs) ==
    IF obs.compose_rc # 0 THEN "nonzero_exit"
    ELSE IF obs.inspect_rc # 0 THEN "inspect_failed"
    ELSE IF exit_code(obs.stdout) = InvalidInt THEN "inspect_invalid"
    ELSE IF exit_code(obs.stdout) = 0 THEN "success"
    ELSE "container_nonzero"

Attempt(kind, e, obs, classified, down) ==
    [kind |-> kind, evidence |-> e, obs |-> obs, classified |-> classified,
     down |-> down]

StepInit ==
    /\ retry_count \in (-1)..MaxRetryCount
    /\ timeout_set \in BOOLEAN
    /\ attempt = 1
    /\ s_pc = "loop"
    /\ s_result = FALSE
    /\ attempts = << >>
    /\ launches = 0
    /\ downs = 0

\* the step service is not running
StepIdle ==
    /\ retry_count = 0
    /\ timeout_set = FALSE
    /\ attempt = 1
    /\ s_pc = "off"
    /\ s_result = FALSE
    /\ attempts = << >>
    /\ launches = 0
    /\ downs = 0

StepReturn(value) ==
    /\ s_pc' = "returned"
    /\ s_result' = value
    /\ UNCHANGED attempt

\* the for loop moves to the next attempt, or falls out to `return False`
\* (upgrade_step.py 436) after the last one
StepContinue ==
    IF attempt = max_attempts
    THEN StepReturn(FALSE)
    ELSE /\ attempt' = attempt + 1
         /\ UNCHANGED <<s_pc, s_result>>

\* upgrade_step.py 379: retry a non-zero exit only if attempts remain and
\* the evidence is transient
should_retry(e) == attempt < max_attempts /\ _is_transient_failure(EvidenceText(e))

\* upgrade_step.py 267-434: one iteration of the attempt loop
StepAttempt ==
    /\ s_pc = "loop"
    /\ attempt <= max_attempts
    /\ \E kind \in AttemptKinds, e \in Evidences,
          obs \in Observations \cup {NoObservation} :
        /\ (kind = "timeout") => (timeout_set /\ e.delta = {})
        /\ (kind \notin {"nonzero_exit", "timeout"}) => (e = NoEvidence)
        /\ IF kind \in {"popen_failed", "no_stdout", "timeout"}
           THEN obs = NoObservation
           ELSE obs # NoObservation /\ kind = Outcome(obs)
        /\ launches' = IF kind = "popen_failed" THEN launches ELSE launches + 1
        /\ CASE kind \in {"popen_failed", "no_stdout"} ->
                  /\ s_pc' = "raised"
                  /\ attempts' = Append(attempts, Attempt(kind, e, obs, "none", FALSE))
                  /\ UNCHANGED <<attempt, s_result, downs>>
             [] kind = "timeout" ->
                  /\ downs' = downs + 1
                  /\ attempts' = Append(attempts, Attempt(kind, e, obs, "none", TRUE))
                  /\ IF attempt = max_attempts THEN StepReturn(FALSE) ELSE StepContinue
             [] kind = "nonzero_exit" ->
                  IF ~should_retry(e)
                  THEN /\ attempts' = Append(attempts,
                             Attempt(kind, e, obs,
                                 IF _is_transient_failure(EvidenceText(e))
                                 THEN "transient" ELSE "fatal", FALSE))
                       /\ StepReturn(FALSE)
                       /\ UNCHANGED downs
                  ELSE /\ attempts' = Append(attempts, Attempt(kind, e, obs, "transient", TRUE))
                       /\ downs' = downs + 1
                       /\ StepContinue
             [] kind \in {"inspect_failed", "inspect_invalid"} ->
                  /\ attempts' = Append(attempts, Attempt(kind, e, obs, "none", FALSE))
                  /\ UNCHANGED downs
                  /\ IF attempt = max_attempts THEN StepReturn(FALSE) ELSE StepContinue
             [] kind = "container_nonzero" ->
                  /\ attempts' = Append(attempts, Attempt(kind, e, obs, "none", TRUE))
                  /\ downs' = downs + 1
                  /\ StepContinue
             [] kind = "success" ->
                  /\ attempts' = Append(attempts, Attempt(kind, e, obs, "none", TRUE))
                  /\ downs' = downs + 1
                  /\ StepReturn(TRUE)
    /\ UNCHANGED <<retry_count, timeout_set>>
    /\ UNCHANGED nonStepVars

StepNext == StepAttempt

\* ----------------- properties of UpgradeStepService.run_upgrade_step
FailedKinds ==
    {"timeout", "nonzero_exit", "inspect_failed", "inspect_invalid", "container_nonzero"}

\* C4 as stated: an attempt that failed and was not classified transient is
\* the last attempt, and run_upgrade_step has returned False.
C4_FatalFailuresNeverRetry ==
    \A i \in DOMAIN attempts :
        (attempts[i].kind \in FailedKinds /\ attempts[i].classified # "transient") =>
            /\ i = Len(attempts)
            /\ s_pc = "returned"
            /\ s_result = FALSE

\* C15 as stated: a call of run_upgrade_step launches the migration container
\* at least once and at most retry_count + 1 times.
C15_AttemptsBounded ==
    /\ launches <= retry_count + 1
    /\ (s_pc \in {"returned", "raised"}) => launches >= 1

\* C15, amended: the container is launched at most max(1, retry_count + 1)
\* times (retry_count + 1 when retry_count is not negative); a call that
\* returns has launched it at least once, and a call launches nothing only
\* when the first Popen fails, in which case it raises.
C15_AttemptsBoundedByMaxAttempts ==
    /\ launches <= (IF retry_count >= 0 THEN retry_count + 1 ELSE 1)
    /\ Len(attempts) <= (IF retry_count >= 0 THEN retry_count + 1 ELSE 1)
    /\ (s_pc = "returned") => launches >= 1
    /\ (s_pc = "raised") =>
          /\ attempts[Len(attempts)].kind \in {"popen_failed", "no_stdout"}
          /\ launches = 0 => (Len(attempts) = 1 /\ attempts[1].kind = "popen_failed")

\* every allowed attempt was used, each failing in a different way
C15_Witness ==
    /\ s_pc = "returned"
    /\ retry_count = MaxRetryCount
    /\ launches = retry_count + 1
    /\ attempts[1].kind = "timeout"
    /\ attempts[2].kind = "inspect_failed"
    /\ attempts[Len(attempts)].kind = "container_nonzero"

\* C23: between two consecutive launches of the migration container in one
\* call, compose down is run on the upgrade manifest, whatever made the
\* earlier attempt fail.
C23_DownBetweenLaunches ==
    \A i \in DOMAIN attempts :
        (i < Len(attempts) /\ attempts[i].kind \in FailedKinds) => attempts[i].down

\* lines of the evidence holding a transient, resp. a fatal pattern in any case
HasTransient(e) == EvidenceText(e) \cap {"t", "T"} # {}
HasFatal(e) == EvidenceText(e) \cap {"f", "F"} # {}

\* C24: an attempt that exceeded the step timeout counts as failed and is
\* retried only if its evidence is transient; otherwise run_upgrade_step
\* returns failure.
C24_TimeoutRetriedOnlyIfTransient ==
    \A i \in DOMAIN attempts :
        (attempts[i].kind = "timeout") =>
            /\ attempts[i].down
            /\ ~(i = Len(attempts) /\ s_pc = "returned" /\ s_result)
            /\ ~(HasTransient(attempts[i].evidence) /\ ~HasFatal(attempts[i].evidence)) =>
                  /\ i = Len(attempts)
                  /\ s_pc = "returned"
                  /\ s_result = FALSE

\* compose exited with 0, inspect succeeded and printed an integer equal to 0
VerifiedExitZero(obs) ==
    /\ obs.compose_rc = 0
    /\ obs.inspect_rc = 0
    /\ obs.stdout \in { <<"0", "\n">>, <<" ", "0">>, <<"0", "0">> }

\* C25: run_upgrade_step returns True only if, in the same attempt, compose
\* exited with 0, the inspect command succeeded and the exit code it printed
\* parses to 0; every other outcome of an attempt is a failure of that
\* attempt, and such an attempt is the one the call returns True from.
C25_TrueOnlyAfterVerifiedExit ==
    /\ (s_pc = "returned" /\ s_result) =>
          /\ attempts # << >>
          /\ VerifiedExitZero(attempts[Len(attempts)].obs)
    /\ \A i \in DOMAIN attempts :
          IF VerifiedExitZero(attempts[i].obs)
          THEN i = Len(attempts) /\ s_pc = "returned" /\ s_result
          ELSE attempts[i].kind # "success"

\* an empty inspect output failed the first attempt, the second printed 0
C25_Witness ==
    /\ s_pc = "returned"
    /\ s_result
    /\ Len(attempts) = 2
    /\ attempts[1].obs = [compose_rc |-> 0, inspect_rc |-> 0, stdout |-> << >>]
    /\ attempts[1].kind = "container_nonzero"
    /\ attempts[2].obs.stdout = <<"0", "\n">>

\* C26: a failed attempt is classified transient if and only if its evidence
\* (tail buffer and log delta) holds a transient pattern and no fatal
\* pattern, whatever the case of the letters; empty evidence is fatal.
C26_TransientClassification ==
    \A i \in DOMAIN attempts :
        (attempts[i].kind = "nonzero_exit") =>
            /\ attempts[i].classified \in {"transient", "fatal"}
            /\ (attempts[i].classified = "transient") <=>
                  (HasTransient(attempts[i].evidence) /\ ~HasFatal(attempts[i].evidence))
            /\ (EvidenceText(attempts[i].evidence) \subseteq {" "}) =>
                  attempts[i].classified = "fatal"

\* an upper-case transient line was retried, then a fatal line in the log
\* delta outweighed a transient line in the tail
C26_Witness ==
    /\ Len(attempts) = 2
    /\ attempts[1].kind = "nonzero_exit"
    /\ attempts[1].evidence = [tail |-> {"T"}, delta |-> {"x"}]
    /\ attempts[1].classified = "transient"
    /\ attempts[2].kind = "nonzero_exit"
    /\ attempts[2].evidence = [tail |-> {"t"}, delta |-> {"F"}]
    /\ attempts[2].classified = "fatal"
    /\ s_pc = "returned"

\* =====================================================================
\* StateService (services/state.py)
\* =====================================================================
StepNames == {"a", "b"}
\* _validate_resume_compatibility: the keys of the metadata that must match
keys_to_match ==
    {"source", "target_version", "extra_addons", "source_sha256",
     "extra_addons_sha256"}

BaseMetadata == [key \in keys_to_match |-> "x"]

\* the settings of a command line that differs from the base in one key
OtherIn(key) == [BaseMetadata EXCEPT ![key] = "y"]

NoMetadata == [key \in keys_to_match |-> "none"]

\* settings of the runs that start afresh, and of the runs that resume
Metadatas == {BaseMetadata, OtherIn("source")}
ResumeMetadatas == {BaseMetadata} \cup { OtherIn(key) : key \in keys_to_match }
RunContexts == {"rc1", "rc2"}
SCHEMA_VERSION == 1

\* Timestamps of the document itself are clock readings; inside a step record
\* only whether finished_at is None or a reading is kept.
NoDoc ==
    [schema_version |-> 0, created_at |-> 0, updated_at |-> 0, status |-> "none",
     metadata |-> NoMetadata, run_context |-> "none", completed_steps |-> << >>,
     current_step |-> "none", current_version |-> "none", data |-> {},
     steps |-> << >>, last_error |-> "none"]

\* a file: whether it exists, whether its JSON text is whole, and the document
NoFile == [exists |-> FALSE, complete |-> FALSE, doc |-> NoDoc]

Range(q) == { q[i] : i \in DOMAIN q }

\* _now() after a reading of c: the clock never goes back, and two readings
\* may be equal
Now(c) == { t \in c..(c + 1) : t <= MaxClock }

\* the state dict initialize builds when it does not resume
FreshState(metadata, run_context, t) ==
    [schema_version |-> SCHEMA_VERSION, created_at |-> t, updated_at |-> t,
     status |-> "running", metadata |-> metadata, run_context |-> run_context,
     completed_steps |-> << >>, current_step |-> "none",
     current_version |-> "none", data |-> {}, steps |-> << >>,
     last_error |-> "none"]

\* the comparison with the two checksum keys left out of keys_to_match
_validate_resume_compatibility_NoChecksums(existing, metadata) ==
    \A key \in {"source", "target_version", "extra_addons"} :
        existing.metadata[key] = metadata[key]

\* TRUE when the list of mismatches is empty (no UpgraderError)
_validate_resume_compatibility(existing, metadata) ==
    \A key \in keys_to_match : existing.metadata[key] = metadata[key]

RunningIdx(steps, step_name) ==
    { i \in DOMAIN steps : steps[i].name = step_name /\ steps[i].status = "running" }

Latest(I) == CHOOSE i \in I : \A j \in I : j <= i

Oldest(I) == CHOOSE i \in I : \A j \in I : i <= j

Finish(steps, i, status, error) ==
    [steps EXCEPT ![i] = [@ EXCEPT !.status = status, !.finished_at = "set",
                                   !.error = error]]

_update_step_status_Oldest(steps, step_name, status, error) ==
    IF RunningIdx(steps, step_name) = {} THEN steps
    ELSE Finish(steps, Oldest(RunningIdx(steps, step_name)), status, error)

_update_step_status(steps, step_name, status, error) ==
    IF RunningIdx(steps, step_name) = {} THEN steps
    ELSE Finish(steps, Latest(RunningIdx(steps, step_name)), status, error)

mark_step_started(st, step_name) ==
    [st EXCEPT !.current_step = step_name,
               !.steps = Append(@, [name |-> step_name, status |-> "running",
                                    started_at |-> "set", finished_at |-> "none",
                                    error |-> "none"])]

mark_step_completed(st, step_name) ==
    [st EXCEPT !.steps = _update_step_status(@, step_name, "success", "none"),
               !.completed_steps =
                   IF step_name \in Range(@) THEN @ ELSE Append(@, step_name),
               !.current_step = "none"]

\* mark_step_failed that also clears current_step, as mark_step_completed does
mark_step_failed_ClearsCurrent(st, step_name, error) ==
    [st EXCEPT !.steps = _update_step_status(@, step_name, "failed", error),
               !.status = "failed",
               !.last_error = error,
               !.current_step = "none"]

mark_step_failed(st, step_name, error) ==
    [st EXCEPT !.steps = _update_step_status(@, step_name, "failed", error),
               !.status = "failed",
               !.last_error = error]

mark_status(st, status, error) ==
    [st EXCEPT !.status = status,
               !.last_error = IF error # "none" THEN error ELSE @]

set_current_version(st, current_version) ==
    [st EXCEPT !.current_version = current_version]

set_value(st, key) == [st EXCEPT !.data = @ \cup {key}]

is_step_completed(st, step_name) == step_name \in Range(st.completed_steps)

\* the discipline of a checkpointed run: a step is completed only while it has
\* a running record and is not completed yet, and is not started once completed
StartFollowsDiscipline(st, step_name) == ~is_step_completed(st, step_name)

CompleteFollowsDiscipline(st, step_name) ==
    /\ RunningIdx(st.steps, step_name) # {}
    /\ ~is_step_completed(st, step_name)

StateInit ==
    /\ state_file = NoFile
    /\ temp_file = NoFile
    /\ state = NoDoc
    /\ st_pc = "noproc"
    /\ st_ret = "none"
    /\ clock = 0
    /\ disciplined = TRUE

StateIdle == StateInit

\* save(state) up to the first bytes written: makedirs, the two stamps,
\* mkstemp, and the start of json.dump into the temporary file
BeginWrite_InPlace(st) ==
    /\ state_file' = [exists |-> TRUE, complete |-> FALSE, doc |-> st]
    /\ UNCHANGED temp_file

BeginWrite(st) ==
    /\ temp_file' = [exists |-> TRUE, complete |-> FALSE, doc |-> st]
    /\ UNCHANGED state_file

\* an exception leaves the state store; the process does not call it again
Raise(kind) ==
    /\ st_pc' = "exited"
    /\ st_ret' = kind

SaveBegin(st, c) ==
    \/ \* makedirs raises OSError: nothing is stamped
       /\ state' = st
       /\ Raise("OSError")
       /\ UNCHANGED <<clock, state_file, temp_file>>
    \/ \E t \in Now(c), made \in BOOLEAN :
       /\ state' = [st EXCEPT !.schema_version = SCHEMA_VERSION, !.updated_at = t]
       /\ clock' = t
       /\ IF made
          THEN /\ BeginWrite(state')
               /\ st_pc' = "save_write"
               /\ st_ret' = "none"
          ELSE \* mkstemp raises OSError, outside the try block
               /\ Raise("OSError")
               /\ UNCHANGED <<state_file, temp_file>>

\* a mutator has changed the dict to st and calls save
Mutate(st) ==
    /\ st_pc = "idle"
    /\ SaveBegin(st, clock)

CannotResume == "UpgraderError: Cannot resume run with different inputs"

\* a resume that takes the run context of the new process
ResumedState_NewContext(existing_state, run_context) ==
    [existing_state EXCEPT !.run_context = run_context]

\* state.py 66: the document initialize hands back when it resumes
ResumedState(existing_state, run_context) == existing_state

\* initialize(metadata, run_context, resume)
InitializeWith(metadata, run_context, resume_arg) ==
    /\ st_pc = "noproc"
    /\ IF state_file.exists /\ ~state_file.complete
       THEN \* load: JSONDecodeError
            /\ Raise("UpgraderError")
            /\ UNCHANGED <<state, clock, disciplined, state_file, temp_file>>
       ELSE IF resume_arg /\ state_file.exists
       THEN IF _validate_resume_compatibility(state_file.doc, metadata)
            THEN \* returns (existing_state, True)
                 /\ state' = ResumedState(state_file.doc, run_context)
                 /\ st_pc' = "idle"
                 /\ st_ret' = "resumed"
                 /\ UNCHANGED <<clock, disciplined, state_file, temp_file>>
            ELSE /\ Raise(CannotResume)
                 /\ UNCHANGED <<state, clock, disciplined, state_file, temp_file>>
       ELSE /\ metadata \in Metadatas
            /\ \E t \in Now(clock) :
                 SaveBegin(FreshState(metadata, run_context, t), t)
            /\ UNCHANGED disciplined
    /\ UNCHANGED nonStateVars

Initialize ==
    \E metadata \in ResumeMetadatas, run_context \in RunContexts,
       resume_arg \in BOOLEAN :
        InitializeWith(metadata, run_context, resume_arg)

MarkStepStarted ==
    /\ Len(state.steps) < MaxHistory
    /\ \E step_name \in StepNames :
        /\ Mutate(mark_step_started(state, step_name))
        /\ disciplined' = (disciplined /\ StartFollowsDiscipline(state, step_name))
    /\ UNCHANGED nonStateVars

MarkStepCompleted ==
    /\ \E step_name \in StepNames :
        /\ Mutate(mark_step_completed(state, step_name))
        /\ disciplined' = (disciplined /\ CompleteFollowsDiscipline(state, step_name))
    /\ UNCHANGED nonStateVars

MarkStepFailed ==
    /\ \E step_name \in StepNames :
        Mutate(mark_step_failed(state, step_name, "error"))
    /\ UNCHANGED disciplined
    /\ UNCHANGED nonStateVars

MarkStatus ==
    /\ \E status \in {"success", "failed"}, error \in {"none", "error"} :
        Mutate(mark_status(state, status, error))
    /\ UNCHANGED disciplined
    /\ UNCHANGED nonStateVars

SetCurrentVersion ==
    /\ Mutate(set_current_version(state, "v"))
    /\ UNCHANGED disciplined
    /\ UNCHANGED nonStateVars

SetValue ==
    /\ Mutate(set_value(state, "k"))
    /\ UNCHANGED disciplined
    /\ UNCHANGED nonStateVars

\* the rest of the text and the close; an OSError becomes UpgraderError and
\* the finally block removes the temporary file
SaveWriteRest ==
    /\ st_pc = "save_write"
    /\ \/ /\ temp_file' = [temp_file EXCEPT !.complete = TRUE]
          /\ st_pc' = "save_replace"
          /\ UNCHANGED st_ret
       \/ /\ temp_file' = NoFile
          /\ Raise("UpgraderError")
    /\ UNCHANGED <<state_file, state, clock, disciplined>>
    /\ UNCHANGED nonStateVars

\* os.replace(temp_path, self.state_file), then the finally block
SaveReplace ==
    /\ st_pc = "save_replace"
    /\ \/ /\ state_file' = temp_file
          /\ temp_file' = NoFile
          /\ st_pc' = "idle"
          /\ st_ret' = "ok"
       \/ /\ temp_file' = NoFile
          /\ Raise("UpgraderError")
          /\ UNCHANGED state_file
    /\ UNCHANGED <<state, clock, disciplined>>
    /\ UNCHANGED nonStateVars

\* the process ends or is killed, at any point; a later one starts from the
\* files alone (an orphaned temporary file is never read again)
ProcessEnds ==
    /\ st_pc # "noproc"
    /\ st_pc' = "noproc"
    /\ state' = NoDoc
    /\ temp_file' = NoFile
    /\ st_ret' = "none"
    /\ UNCHANGED <<state_file, clock, disciplined>>
    /\ UNCHANGED nonStateVars

StateNext ==
    \/ Initialize
    \/ MarkStepStarted
    \/ MarkStepCompleted
    \/ MarkStepFailed
    \/ MarkStatus
    \/ SetCurrentVersion
    \/ SetValue
    \/ SaveWriteRest
    \/ SaveReplace
    \/ ProcessEnds

\* ------------------------------------------ properties of StateService
Statuses == {"running", "success", "failed", "aborted"}

\* what a reader of the state file parses is a whole document
ValidDocument(f) ==
    /\ f.complete
    /\ f.doc.schema_version = SCHEMA_VERSION
    /\ f.doc.status \in Statuses
    /\ f.doc.updated_at \in 0..clock

C13_ResumeChecksInputs ==
    [][\A metadata \in ResumeMetadatas, run_context \in RunContexts :
          (state_file.exists /\ state_file.complete
              /\ InitializeWith(metadata, run_context, TRUE)) =>
            IF \E key \in keys_to_match : state_file.doc.metadata[key] # metadata[key]
            THEN /\ st_pc' = "exited"
                 /\ st_ret' = CannotResume
                 /\ state_file' = state_file
            ELSE /\ st_pc' = "idle"
                 /\ st_ret' = "resumed"
                 /\ state' = state_file.doc
                 /\ state_file' = state_file]_vars

\* a resume was refused while a document with steps in it is on disk
C13_Witness ==
    /\ st_pc = "exited"
    /\ st_ret = CannotResume
    /\ state_file.exists
    /\ state_file.doc.steps # << >>

\* C14 as stated: no initialize with resume enabled returns a document
\* whose status is success.
C14_ResumeOfSuccessfulRunRejected ==
    ~(st_pc = "idle" /\ st_ret = "resumed" /\ state.status = "success")

\* C39: initialize with resume enabled on a state file whose five keys match
\* returns the persisted document as it is and writes nothing: the persisted
\* run_context is kept, the one passed is dropped, and the persisted status
\* is not reset to running.
C39_ResumeChangesNothing ==
    [][(st_pc = "noproc" /\ state_file.exists /\ state_file.complete) =>
        \A metadata \in ResumeMetadatas, run_context \in RunContexts :
          (/\ \A key \in keys_to_match : state_file.doc.metadata[key] = metadata[key]
           /\ InitializeWith(metadata, run_context, TRUE)) =>
            /\ st_ret' = "resumed"
            /\ state' = state_file.doc
            /\ state'.run_context = state_file.doc.run_context
            /\ state'.status = state_file.doc.status
            /\ state'.updated_at = state_file.doc.updated_at
            /\ state_file' = state_file
            /\ temp_file' = temp_file
            /\ clock' = clock]_vars

\* a run whose persisted status is failed and which has history was resumed
C39_Witness ==
    /\ st_pc = "idle"
    /\ st_ret = "resumed"
    /\ state.status = "failed"
    /\ state.steps # << >>
    /\ state_file.doc = state

\* the fields of the document mark_step_failed leaves alone
KeptByFailure(st) ==
    <<st.completed_steps, st.current_step, st.current_version, st.data,
      st.metadata, st.run_context, st.created_at>>

\* C40: mark_step_failed sets status to failed and last_error to the error
\* and marks the running record of the step failed, and leaves
\* completed_steps, current_step, current_version and data as they were; a
\* later mark_step_completed does not change the status back from failed.
C40_FailureFrame ==
    [][(st_pc = "idle" /\ state' # state) =>
        \A step_name \in StepNames :
          /\ Mutate(mark_step_failed(state, step_name, "error")) =>
                /\ state'.status = "failed"
                /\ state'.last_error = "error"
                /\ KeptByFailure(state') = KeptByFailure(state)
                /\ Len(state'.steps) = Len(state.steps)
                /\ \A i \in DOMAIN state.steps :
                      IF RunningIdx(state.steps, step_name) # {}
                            /\ i = Latest(RunningIdx(state.steps, step_name))
                      THEN /\ state'.steps[i].status = "failed"
                           /\ state'.steps[i].error = "error"
                           /\ state'.steps[i].name = step_name
                      ELSE state'.steps[i] = state.steps[i]
          /\ (state.status = "failed"
                /\ Mutate(mark_step_completed(state, step_name))) =>
                state'.status = "failed"]_vars

\* step a failed while it was the current step, and step b was completed
\* afterwards
C40_Witness ==
    /\ st_pc = "idle"
    /\ state.status = "failed"
    /\ state.last_error = "error"
    /\ state.completed_steps = <<"b">>
    /\ Len(state.steps) = 2
    /\ state.steps[1].name = "a" /\ state.steps[1].status = "failed"
    /\ state.steps[2].name = "b" /\ state.steps[2].status = "success"

\* whenever a call of the state store has returned, the state file holds the
\* whole document the process has in memory
StateWriteThrough ==
    st_pc = "idle" => state_file = [exists |-> TRUE, complete |-> TRUE, doc |-> state]

SuccessIdx(steps, S) ==
    { i \in DOMAIN steps : steps[i].name = S /\ steps[i].status = "success" }

NoDuplicates(q) == \A i, j \in DOMAIN q : q[i] = q[j] => i = j

IsPrefix(p, q) == Len(p) <= Len(q) /\ \A i \in DOMAIN p : p[i] = q[i]

OneSuccessAfterRunning(st) ==
    \A S \in Range(st.completed_steps) :
        /\ Cardinality(SuccessIdx(st.steps, S)) = 1
        /\ \A i \in SuccessIdx(st.steps, S), j \in RunningIdx(st.steps, S) : j < i

InitAnyDirectory ==
    /\ files \in SUBSET RenderedFiles
    /\ dbUp \in BOOLEAN
    /\ upgradeUp \in BOOLEAN
    /\ cleanups = << >>

Apply(r) ==
    /\ files' = r.files
    /\ dbUp' = r.dbUp
    /\ upgradeUp' = r.upgradeUp
    /\ cleanups' = Append(cleanups, r)

\* OdooUpgrader.cleanup()
CallCleanup ==
    /\ Len(cleanups) < MaxCleanupCalls
    /\ \E r \in CleanupResults(files, dbUp, upgradeUp) : Apply(r)
    /\ UNCHANGED <<runVars, stepVars, stateVars, auxVars>>

\* DockerRuntimeService.cleanup_docker_environment(compose_cmd, run_cmd)
CallCleanupDockerEnvironment ==
    /\ Len(cleanups) < MaxCleanupCalls
    /\ \E r_up \in DownResults(files, UPGRADE_COMPOSE),
          r_db \in DownResults(files, DB_COMPOSE) :
        Apply(cleanup_docker_environment(files, dbUp, upgradeUp, r_up, r_db))
    /\ UNCHANGED <<runVars, stepVars, stateVars, auxVars>>

CleanupNext == CallCleanup \/ CallCleanupDockerEnvironment

\* ------------------------------------------------ properties of cleanup
ByCleanup == { i \in DOMAIN cleanups : cleanups[i].by = "cleanup" }

ChangesNothing(r) ==
    /\ r.files = r.before
    /\ r.dbUp = r.dbBefore
    /\ r.upgradeUp = r.upBefore
    /\ r.commands = 0

SQL_COMPAT_MAX_PASSES == 5

Params == {"p1", "p2", "p3", "p4", "p5"}
Line(form, parameter) == [form |-> form, param |-> parameter]
DataLine == Line("data", "none")

Dumps ==
    { <<DataLine>>,
      <<Line("SET =", "p1"), Line("SET =", "p2"), Line("set_config", "p3"),
        Line("SET =", "p4"), Line("SET =", "p5"), DataLine>>,
      <<Line("SET =", "p1"), Line("ALTER SET", "p1"), Line("SET =", "p2"), DataLine>>,
      <<Line("set_config", "p2"), Line("ALTER SET", "p3"), DataLine>> }

\* a message of psql on stderr
Unrecognized(parameter) == [kind |-> "unrecognized", param |-> parameter]
OtherError == [kind |-> "other", param |-> "none"]

\* psql -v ON_ERROR_STOP=1 -f dump: stops at the first statement that sets a
\* parameter the server does not know
psql(dump, unsupported, broken) ==
    LET bad == { i \in DOMAIN dump : dump[i].param \in unsupported } IN
    IF bad # {}
    THEN LET first == CHOOSE i \in bad : \A j \in bad : i <= j IN
         [returncode |-> 3, stderr |-> <<Unrecognized(dump[first].param)>>]
    ELSE IF broken THEN [returncode |-> 3, stderr |-> <<OtherError>>]
    ELSE [returncode |-> 0, stderr |-> << >>]

RECURSIVE Unique(_, _)
Unique(seen, rest) ==
    IF rest = << >> THEN seen
    ELSE Unique(IF \E i \in DOMAIN seen : seen[i] = Head(rest)
                THEN seen ELSE Append(seen, Head(rest)), Tail(rest))

\* the parameters named by "unrecognized configuration parameter", once each
_extract_unsupported_parameters(stderr_output) ==
    LET found == SelectSeq(stderr_output, LAMBDA msg : msg.kind = "unrecognized")
    IN  Unique(<< >>, [i \in DOMAIN found |-> found[i].param])

_line_sets_parameter(line, parameter) ==
    line.form = "SET =" /\ line.param = parameter

_line_calls_set_config_parameter(line, parameter) ==
    line.form = "set_config" /\ line.param = parameter

should_skip(line, params_set) ==
    \E parameter \in params_set :
        \/ _line_sets_parameter(line, parameter)
        \/ _line_calls_set_config_parameter(line, parameter)

\* a compatibility dump that drops every line setting one of the parameters
_create_sql_compat_dump_AnyForm(source_dump, params_set) ==
    LET kept == SelectSeq(source_dump, LAMBDA line : line.param \notin params_set)
    IN  [raised |-> Len(kept) = Len(source_dump), dump |-> kept]

\* _create_sql_compat_dump: the lines written, and whether it raised because
\* no line was removed
_create_sql_compat_dump(source_dump, params_set) ==
    LET kept == SelectSeq(source_dump, LAMBDA line : ~should_skip(line, params_set))
    IN  [raised |-> Len(kept) = Len(source_dump), dump |-> kept]

\* A dump file is named by the number of ".compat.sql" suffixes after
\* dump_path: f"{source_dump_path}{SQL_COMPAT_FILE_SUFFIX}" adds one.
compat_dump_path(source_dump_path) == source_dump_path + 1

\* open(compat_dump_path, "w") and the lines written to it
WriteDump(disk, path, lines) ==
    { f \in disk : f.path # path } \cup {[path |-> path, lines |-> lines]}

CouldNotBuild == "Could not build SQL compatibility dump"

NoError == [kind |-> "none", stderr |-> << >>, enriched |-> FALSE]
CommandFailed(stderr_output, unsupported) ==
    [kind |-> "Command failed", stderr |-> stderr_output,
     enriched |-> unsupported # << >>]
OtherFailure(kind) == [kind |-> kind, stderr |-> << >>, enriched |-> FALSE]

RestoreInit ==
    /\ db_source \in Dumps
    /\ db_unsupported \in SUBSET Params
    /\ db_broken \in BOOLEAN
    /\ current_dump = db_source
    /\ attempted_params = {}
    /\ pass_number = 1
    /\ db_pc = "loop"
    /\ db_err = NoError
    /\ db_log = << >>
    /\ db_files = {[path |-> 0, lines |-> db_source]}

\* no restore is running
RestoreIdle ==
    /\ db_source = << >>
    /\ db_unsupported = {}
    /\ db_broken = FALSE
    /\ current_dump = << >>
    /\ attempted_params = {}
    /\ pass_number = 1
    /\ db_pc = "off"
    /\ db_err = NoError
    /\ db_log = << >>
    /\ db_files = {}

\* one turn of the loop over pass_number: docker cp, psql, and the
\* compatibility dump for the next turn
RestorePass ==
    /\ db_pc = "loop"
    /\ pass_number <= SQL_COMPAT_MAX_PASSES
    /\ \E cp_ok \in BOOLEAN :
        IF ~cp_ok
        THEN /\ db_pc' = "raised"
             /\ db_err' = OtherFailure("docker cp failed")
             /\ UNCHANGED <<current_dump, attempted_params, pass_number, db_log,
                            db_files>>
        ELSE
          LET result == psql(current_dump, db_unsupported, db_broken)
              unsupported == _extract_unsupported_parameters(result.stderr)
              new_unsupported ==
                  SelectSeq(unsupported, LAMBDA q : q \notin attempted_params)
              compat == _create_sql_compat_dump(current_dump,
                            { new_unsupported[i] : i \in DOMAIN new_unsupported })
          IN
          /\ db_log' = Append(db_log, [dump |-> current_dump,
                                       returncode |-> result.returncode,
                                       stderr |-> result.stderr])
          /\ IF result.returncode = 0
             THEN /\ db_pc' = "returned"
                  /\ UNCHANGED <<current_dump, attempted_params, pass_number, db_err,
                                 db_files>>
             ELSE IF new_unsupported # << >> /\ pass_number < SQL_COMPAT_MAX_PASSES
             THEN /\ attempted_params' = attempted_params \cup
                        { new_unsupported[i] : i \in DOMAIN new_unsupported }
                  \* the file is written before removed_lines is looked at
                  /\ db_files' = WriteDump(db_files, compat_dump_path(pass_number - 1),
                                           compat.dump)
                  /\ IF compat.raised
                     THEN /\ db_pc' = "raised"
                          /\ db_err' = OtherFailure(CouldNotBuild)
                          /\ UNCHANGED <<current_dump, pass_number>>
                     ELSE /\ current_dump' = compat.dump
                          /\ pass_number' = pass_number + 1
                          /\ UNCHANGED <<db_pc, db_err>>
             ELSE /\ db_pc' = "raised"
                  /\ db_err' = CommandFailed(result.stderr, unsupported)
                  /\ UNCHANGED <<current_dump, attempted_params, pass_number, db_files>>
    /\ UNCHANGED <<db_source, db_unsupported, db_broken>>
    /\ UNCHANGED <<runVars, envVars, stepVars, stateVars, archiveVars, netVars, ctxVars,
                   crVars, mfVars, cacheVars, vpVars>>

RestoreNext == RestorePass

\* ------------------------------------------------ properties of restore
\* the parameters psql run i complained about
Named(i) ==
    { db_log[i].stderr[k].param :
        k \in { k \in DOMAIN db_log[i].stderr : db_log[i].stderr[k].kind = "unrecognized" } }

NamedBefore(i) == UNION { Named(j) : j \in 1..(i - 1) }

\* source without the SET and set_config lines of the parameters in P
Stripped(P) ==
    SelectSeq(db_source,
              LAMBDA line : ~(line.form \in {"SET =", "set_config"} /\ line.param \in P))

\* C21: the restore runs psql at most 5 times; a run that failed is followed
\* by another one only if its error output names a parameter no earlier run
\* named; run i uses the dump without the settings of exactly the parameters
\* named by the runs before it; the restore returns at the first run that
\* succeeds; and when a failed run names no new parameter the restore fails
\* with the error of that run.
C21_CompatPasses ==
    /\ Len(db_log) <= 5
    /\ \A i \in DOMAIN db_log :
          /\ db_log[i].dump = Stripped(NamedBefore(i))
          /\ (i < Len(db_log)) =>
                /\ db_log[i].returncode # 0
                /\ Named(i) \ NamedBefore(i) # {}
          /\ (db_log[i].returncode = 0) => (i = Len(db_log) /\ db_pc = "returned")
    /\ (db_pc = "returned") =>
          (db_log # << >> /\ db_log[Len(db_log)].returncode = 0)
    /\ (db_pc = "loop" /\ db_log # << >>) =>
          Named(Len(db_log)) \ NamedBefore(Len(db_log)) # {}
    /\ (db_log # << >> /\ db_log[Len(db_log)].returncode # 0
            /\ Named(Len(db_log)) \ NamedBefore(Len(db_log)) = {}) =>
          /\ db_pc = "raised"
          /\ db_err.kind = "Command failed"
          /\ db_err.stderr = db_log[Len(db_log)].stderr

\* four parameters were stripped one pass after the other and the fifth run
\* of psql succeeded
C21_Witness ==
    /\ db_pc = "returned"
    /\ Len(db_log) = 5
    /\ attempted_params = {"p1", "p2", "p3", "p4"}
    /\ current_dump = <<Line("SET =", "p5"), DataLine>>

\* C33: building the compatibility dump from a dump with no SET or
\* set_config line of the given parameters raises UpgraderError and leaves
\* the files as they were: the source untouched, no compatibility dump left.
C33_FailedRewriteLeavesNoFile ==
    [][(db_err'.kind = CouldNotBuild /\ db_err.kind # CouldNotBuild) =>
          db_files' = db_files]_vars

\* =====================================================================
\* UpgradeStepService.ensure_openupgrade_cache (services/upgrade_step.py)
\* =====================================================================
MaxCacheCalls == 2

CacheVersions == {"15.0", "16.0"}

\* what can be at version_cache_path: nothing, a directory holding
\* requirements.txt, a directory with other content only, an empty
\* directory, or a regular file
Entries == {"absent", "ready", "partial", "empty", "file"}

isdir(entry) == entry \in {"ready", "partial", "empty"}

\* a directory counts as ready whatever it holds
_is_cache_ready_AnyDir(entry) == isdir(entry)

\* upgrade_step.py 500-503
_is_cache_ready(entry) == entry = "ready"

\* shutil.rmtree(path, ignore_errors=True): what it can leave behind
rmtree(entry) ==
    IF isdir(entry) THEN {"absent", "empty", "partial"} ELSE {entry}

\* git clone --depth 1 --branch <version> <url> version_cache_path, run with
\* check=True: the exit code and what is at the path afterwards. git refuses
\* a destination that exists and is not an empty directory; a run_cmd that
\* exits with 0 may have created nothing (a stub).
Clone(entry) ==
    IF entry \in {"partial", "ready", "file"}
    THEN {[returncode |-> 128, entry |-> entry]}
    ELSE {[returncode |-> 0, entry |-> "ready"],
          [returncode |-> 0, entry |-> "partial"],
          [returncode |-> 0, entry |-> entry],
          [returncode |-> 128, entry |-> entry],
          [returncode |-> 128, entry |-> "partial"]}

\* an operation of one call and what was at the path when it began
Op(name, entry) == [op |-> name, at |-> entry]

CacheCall(version, before, ops, ret, after) ==
    [version |-> version, before |-> before, ops |-> ops, ret |-> ret, after |-> after]

\* upgrade_step.py 493-497: the last look at the entry
Checked(version, before, ops, after) ==
    CacheCall(version, before, ops,
              IF _is_cache_ready(after) THEN "returned" ELSE "UpgraderError", after)

\* ensure_openupgrade_cache(target_version, ...): the records of the calls it
\* can make of an entry
ensure_openupgrade_cache(version, entry) ==
    IF _is_cache_ready(entry)
    THEN {CacheCall(version, entry, << >>, "returned", entry)}
    ELSE
      \* os.makedirs(cache_root) raises
      {CacheCall(version, entry, << >>, "OSError", entry)}
      \cup
      UNION {
        LET removal == IF entry # "absent" THEN <<Op("rmtree", entry)>> ELSE << >> IN
        UNION {
          LET ops == removal \o <<Op("clone", left)>> IN
          IF cloned.returncode # 0
          THEN {CacheCall(version, entry, ops, "UpgraderError", cloned.entry)}
          ELSE IF cloned.entry = "file"
          THEN \* os.makedirs(version_cache_path, exist_ok=True) raises
               {CacheCall(version, entry, ops, "OSError", cloned.entry)}
          ELSE LET made == IF cloned.entry = "absent" THEN "empty" ELSE cloned.entry IN
               IF made = "ready"
               THEN {Checked(version, entry, ops, made)}
               ELSE \* the empty requirements.txt is written, or open() raises
                    {Checked(version, entry, ops \o <<Op("placeholder", made)>>,
                             "ready"),
                     CacheCall(version, entry, ops \o <<Op("placeholder", made)>>,
                               "OSError", made)}
          : cloned \in Clone(left) }
        : left \in (IF entry # "absent" THEN rmtree(entry) ELSE {entry}) }

CacheInit ==
    /\ cache \in [CacheVersions -> Entries]
    /\ cache_calls = << >>

CacheIdle ==
    /\ cache = [v \in CacheVersions |-> "absent"]
    /\ cache_calls = << >>

EnsureOpenupgradeCache ==
    /\ Len(cache_calls) < MaxCacheCalls
    /\ \E version \in CacheVersions :
        \E call \in ensure_openupgrade_cache(version, cache[version]) :
            /\ cache' = [cache EXCEPT ![version] = call.after]
            /\ cache_calls' = Append(cache_calls, call)
    /\ UNCHANGED <<runVars, envVars, stepVars, stateVars, archiveVars, netVars, ctxVars,
                   dbVars, crVars, mfVars, vpVars>>

CacheNext == EnsureOpenupgradeCache

\* ------------------------------------------------- properties of cache
OpIdx(call, name) == { i \in DOMAIN call.ops : call.ops[i].op = name }

NeverClonesWhenReady(call) ==
    (call.before = "ready") =>
        (call.ops = << >> /\ call.ret = "returned" /\ call.after = "ready")

ReturnsReady(call) == (call.ret = "returned") => (call.after = "ready")

\* C34 as stated: no clone when the entry is ready; when it is not ready any
\* partial directory is gone before the clone; a normal return means a ready
\* entry.
C34_CacheReady ==
    \A k \in DOMAIN cache_calls :
        LET call == cache_calls[k] IN
        /\ NeverClonesWhenReady(call)
        /\ \A i \in OpIdx(call, "clone") : call.ops[i].at \in {"absent", "empty"}
        /\ ReturnsReady(call)

\* C34, amended: no clone when the entry is ready; when it is not ready and
\* something is at the path, rmtree is called on it, errors ignored, before
\* the clone, and the clone is run whatever rmtree left; a normal return
\* means a ready entry.
C34_CacheReadyRemovalAttempted ==
    \A k \in DOMAIN cache_calls :
        LET call == cache_calls[k] IN
        /\ NeverClonesWhenReady(call)
        /\ \A i \in OpIdx(call, "clone") :
              (call.before # "absent") =>
                  \E j \in OpIdx(call, "rmtree") : j < i /\ call.ops[j].at = call.before
        /\ (call.before # "ready" /\ call.ret # "OSError") => OpIdx(call, "clone") # {}
        /\ ReturnsReady(call)

\* a partial directory was removed, the clone brought no requirements.txt,
\* the placeholder was written and the entry returned
C34_Witness ==
    \E k \in DOMAIN cache_calls :
        LET call == cache_calls[k] IN
        /\ call.before = "partial"
        /\ call.ops = <<Op("rmtree", "partial"), Op("clone", "absent"),
                        Op("placeholder", "partial")>>
        /\ call.ret = "returned"
        /\ call.after = "ready"

\* =====================================================================
\* DatabaseService.get_current_version (services/database.py)
\* =====================================================================
\* Text is a sequence of characters; "a" and "b" stand for the characters
\* of a version.
NumQueries == 3

RECURSIVE SplitFrom(_, _)
SplitFrom(text, line) ==
    IF text = << >> THEN (IF line = << >> THEN << >> ELSE <<line>>)
    ELSE IF Head(text) = "\n" THEN <<line>> \o SplitFrom(Tail(text), << >>)
    ELSE SplitFrom(Tail(text), Append(line, Head(text)))

\* str.splitlines()
splitlines(text) == SplitFrom(text, << >>)

ProbeStdouts ==
    { << >>,
      <<"\n">>,
      <<" ", "\n", " ", "a", " ", "\n", "b", "\n">>,
      <<"b", "\n">>,
      <<"a", " ", "b">> }

\* what run_cmd(..., check=False, capture_output=True) does for a query: a
\* CompletedProcess, or an UpgraderError (timeout, docker not found)
ProbeAnswers ==
    [kind : {"exit"}, returncode : {0}, stdout : ProbeStdouts]
    \cup [kind : {"exit"}, returncode : {1}, stdout : {<< >>, <<"b", "\n">>}]
    \cup {[kind |-> "raise", returncode |-> -1, stdout |-> << >>]}

\* the first line as it is, not trimmed
FirstCleaned_Untrimmed(lines) ==
    LET full == { i \in DOMAIN lines : strip(lines[i]) # << >> } IN
    IF full = {} THEN << >>
    ELSE lines[CHOOSE i \in full : \A j \in full : i <= j]

\* database.py 318-321: the first cleaned line that is not empty, or the
\* empty text when the loop over the lines ends
RECURSIVE FirstCleaned(_)
FirstCleaned(lines) ==
    IF lines = << >> THEN << >>
    ELSE IF strip(Head(lines)) # << >> THEN strip(Head(lines))
    ELSE FirstCleaned(Tail(lines))

VersionProbeInit ==
    /\ vp_answers \in [1..NumQueries -> ProbeAnswers]
    /\ vp_run = << >>
    /\ vp_pc = "loop"
    /\ vp_ret = << >>

VersionProbeIdle ==
    /\ vp_answers = << >>
    /\ vp_run = << >>
    /\ vp_pc = "off"
    /\ vp_ret = << >>

\* the end of get_current_version once every query has been tried
ProbeExhausted ==
    /\ vp_pc = "loop"
    /\ Len(vp_run) = NumQueries
    /\ vp_pc' = "returned"
    /\ vp_ret' = << >>
    /\ UNCHANGED <<vp_answers, vp_run>>
    /\ UNCHANGED <<runVars, envVars, stepVars, stateVars, archiveVars, netVars, ctxVars,
                   dbVars, crVars, mfVars, cacheVars>>

\* one turn of the loop over queries
ProbeQuery ==
    /\ vp_pc = "loop"
    /\ Len(vp_run) < NumQueries
    /\ LET query == Len(vp_run) + 1
           result == vp_answers[query]
           cleaned == FirstCleaned(splitlines(result.stdout))
       IN
       /\ vp_run' = Append(vp_run, query)
       /\ IF result.kind = "raise"
          THEN vp_pc' = "raised" /\ UNCHANGED vp_ret
          ELSE IF result.returncode # 0 \/ cleaned = << >>
          THEN UNCHANGED <<vp_pc, vp_ret>>
          ELSE vp_pc' = "returned" /\ vp_ret' = cleaned
    /\ UNCHANGED vp_answers
    /\ UNCHANGED <<runVars, envVars, stepVars, stateVars, archiveVars, netVars, ctxVars,
                   dbVars, crVars, mfVars, cacheVars>>

VersionProbeNext == ProbeQuery \/ ProbeExhausted

\* ------------------------------------------ properties of version probe
Blank(c) == c \in {" ", "\n"}

\* text is line without the blanks at its two ends
Trimmed(text, line) ==
    \E a, b \in 0..Len(line) :
        /\ a + b <= Len(line)
        /\ text = SubSeq(line, a + 1, Len(line) - b)
        /\ \A i \in 1..a : Blank(line[i])
        /\ \A i \in (Len(line) - b + 1)..Len(line) : Blank(line[i])
        /\ text # << >> => (~Blank(text[1]) /\ ~Blank(text[Len(text)]))

\* query i succeeds and prints a line that is not blank
Yields(i) ==
    /\ vp_answers[i].kind = "exit"
    /\ vp_answers[i].returncode = 0
    /\ \E k \in DOMAIN vp_answers[i].stdout : ~Blank(vp_answers[i].stdout[k])

\* text is the first non-blank line of the output of query i, trimmed
FirstLineOf(text, i) ==
    LET lines == splitlines(vp_answers[i].stdout) IN
    \E k \in DOMAIN lines :
        /\ text # << >>
        /\ Trimmed(text, lines[k])
        /\ \A j \in 1..(k - 1) : \A n \in DOMAIN lines[j] : Blank(lines[j][n])

\* C35: the three queries run in order; a failing or empty query is skipped;
\* the first non-empty trimmed line of the first query that succeeds and
\* yields one is returned and no later query is run; the result is the empty
\* string if no query yields a line.
C35_FirstNonEmptyResult ==
    /\ vp_run = [i \in 1..Len(vp_run) |-> i]
    /\ Len(vp_run) <= NumQueries
    /\ \A i \in 1..(Len(vp_run) - 1) : ~Yields(i)
    /\ (vp_pc = "returned") =>
          IF \E i \in 1..NumQueries : Yields(i)
          THEN /\ Yields(Len(vp_run))
               /\ FirstLineOf(vp_ret, Len(vp_run))
          ELSE /\ Len(vp_run) = NumQueries
               /\ vp_ret = << >>
    /\ (vp_pc = "loop" /\ vp_run # << >>) => ~Yields(Len(vp_run))

\* the first query failed, the second printed blank lines only, and the
\* third gave its second line, trimmed
C35_Witness ==
    /\ vp_pc = "returned"
    /\ vp_run = <<1, 2, 3>>
    /\ vp_answers[1].returncode = 1
    /\ vp_answers[2] = [kind |-> "exit", returncode |-> 0, stdout |-> <<"\n">>]
    /\ vp_answers[3].stdout = <<" ", "\n", " ", "a", " ", "\n", "b", "\n">>
    /\ vp_ret = <<"a">>

\* =====================================================================
\* ManifestService (services/manifest.py)
\* =====================================================================
\* A timestamp is kept as "set" or "none" (None), a duration likewise.
MaxWriteFaults == 1

\* self.manifest after __init__
EmptyManifest ==
    [run_id |-> "none", status |-> "running", started_at |-> "none",
     finished_at |-> "none", duration_seconds |-> "none", metadata |-> "none",
     versions |-> "none", steps |-> << >>, artifacts |-> {}, error |-> "none"]

NoManifestFile == [exists |-> FALSE, doc |-> EmptyManifest]

\* the file operation of write() that raises OSError, if any
WriteFaults == {"none", "makedirs", "mkstemp", "dump", "replace"}

\* (finished_at - started_at).total_seconds(), of two timestamps that are set
total_seconds(started_at, finished_at) ==
    IF started_at = "set" /\ finished_at = "set" THEN "set" ELSE "none"

start_run(doc, run_id, metadata) ==
    [doc EXCEPT !.run_id = run_id, !.status = "running", !.started_at = "set",
                !.metadata = metadata]

set_versions(doc, versions) == [doc EXCEPT !.versions = versions]

step_started(doc, step_name, details) ==
    [doc EXCEPT !.steps =
        Append(@, [name |-> step_name, status |-> "running", started_at |-> "set",
                   finished_at |-> "none", duration_seconds |-> "none",
                   details |-> details, error |-> "none"])]

\* the record step_finished writes over a running one
Finished(step, status, details, error) ==
    [step EXCEPT !.status = status, !.finished_at = "set", !.error = error,
                 !.details = @ \cup details,
                 !.duration_seconds = total_seconds(step.started_at, "set")]

\* every running record of the name is finished, not only the latest
step_finished_AllRunning(doc, step_name, status, details, error) ==
    [doc EXCEPT !.steps =
        [i \in DOMAIN @ |->
            IF i \in RunningIdx(@, step_name)
            THEN Finished(@[i], status, details, error)
            ELSE @[i]]]

step_finished(doc, step_name, status, details, error) ==
    IF RunningIdx(doc.steps, step_name) = {}
    THEN doc
    ELSE [doc EXCEPT !.steps[Latest(RunningIdx(doc.steps, step_name))] =
              Finished(@, status, details, error)]

add_artifact(doc, key) == [doc EXCEPT !.artifacts = @ \cup {key}]

finalize(doc, status, error) ==
    [doc EXCEPT !.status = status, !.finished_at = "set", !.error = error,
                !.duration_seconds =
                    IF doc.started_at # "none"
                    THEN total_seconds(doc.started_at, "set") ELSE @]

\* a write that reports nothing when the dump or the rename fails
write_Unreported(file, doc, fault) ==
    IF fault \in {"makedirs", "mkstemp"}
    THEN [file |-> file, ret |-> "OSError"]
    ELSE IF fault = "none"
    THEN [file |-> [exists |-> TRUE, doc |-> doc], ret |-> "ok"]
    ELSE [file |-> file, ret |-> "ok"]

\* write(): makedirs and mkstemp stand outside the try block; an OSError of
\* the dump or of os.replace is logged as a warning and the temporary file
\* removed
write(file, doc, fault) ==
    IF fault \in {"makedirs", "mkstemp"}
    THEN [file |-> file, ret |-> "OSError"]
    ELSE IF fault = "none"
    THEN [file |-> [exists |-> TRUE, doc |-> doc], ret |-> "ok"]
    ELSE [file |-> file, ret |-> "warned"]

ManifestInit ==
    /\ manifest = EmptyManifest
    /\ manifest_file = NoManifestFile
    /\ mf_ret = "none"
    /\ mf_faults = 0

ManifestIdle == ManifestInit

nonManifestVars ==
    <<runVars, envVars, stepVars, stateVars, archiveVars, netVars, ctxVars, dbVars, crVars,
      cacheVars, vpVars>>

\* a mutator has changed self.manifest to doc and calls write()
Written(doc, fault) ==
    /\ fault # "none" => mf_faults < MaxWriteFaults
    /\ mf_faults' = IF fault # "none" THEN mf_faults + 1 ELSE mf_faults
    /\ manifest' = doc
    /\ LET w == write(manifest_file, doc, fault) IN
         /\ manifest_file' = w.file
         /\ mf_ret' = w.ret

StartRun ==
    /\ \E fault \in WriteFaults : Written(start_run(manifest, "r", "m"), fault)
    /\ UNCHANGED nonManifestVars

SetVersions ==
    /\ \E fault \in WriteFaults : Written(set_versions(manifest, "v"), fault)
    /\ UNCHANGED nonManifestVars

StepStartedWith(step_name, fault) ==
    /\ Len(manifest.steps) < MaxHistory
    /\ Written(step_started(manifest, step_name, {}), fault)

StepStarted ==
    /\ \E step_name \in StepNames, fault \in WriteFaults :
          StepStartedWith(step_name, fault)
    /\ UNCHANGED nonManifestVars

\* the terminal status, the details and the error step_finished is given
Terminals ==
    { [status |-> "success", details |-> {}, error |-> "none"],
      [status |-> "success", details |-> {"d"}, error |-> "none"],
      [status |-> "failed", details |-> {}, error |-> "error"] }

StepFinishedWith(step_name, end, fault) ==
    Written(step_finished(manifest, step_name, end.status, end.details, end.error),
            fault)

StepFinished ==
    /\ \E step_name \in StepNames, end \in Terminals, fault \in WriteFaults :
          StepFinishedWith(step_name, end, fault)
    /\ UNCHANGED nonManifestVars

AddArtifact ==
    /\ \E fault \in WriteFaults : Written(add_artifact(manifest, "k"), fault)
    /\ UNCHANGED nonManifestVars

\* the status and the error finalize is given
RunEnds == {[status |-> "success", error |-> "none"],
            [status |-> "failed", error |-> "error"]}

FinalizeWith(end, fault) == Written(finalize(manifest, end.status, end.error), fault)

Finalize ==
    /\ \E fault \in WriteFaults, end \in RunEnds : FinalizeWith(end, fault)
    /\ UNCHANGED nonManifestVars

ManifestNext ==
    \/ StartRun
    \/ SetVersions
    \/ StepStarted
    \/ StepFinished
    \/ AddArtifact
    \/ Finalize

\* ---------------------------------------- properties of ManifestService
ReturnedNormally == mf_ret \in {"ok", "warned"}

OnDisk(doc) == manifest_file = [exists |-> TRUE, doc |-> doc]

\* records i of the history that have a terminal status
TerminalIdx(steps) == { i \in DOMAIN steps : steps[i].status # "running" }

OneRecordChanged(before, after, step_name) ==
    /\ DOMAIN after = DOMAIN before
    /\ IF RunningIdx(before, step_name) = {}
       THEN after = before
       ELSE LET k == Latest(RunningIdx(before, step_name)) IN
            /\ after[k].status # "running"
            /\ after[k].name = step_name
            /\ \A i \in DOMAIN before : i # k => after[i] = before[i]

\* the records of the manifest as the state store keeps them
AsStateSteps(steps) ==
    [i \in DOMAIN steps |->
        [name |-> steps[i].name, status |-> steps[i].status, started_at |-> "set",
         finished_at |-> steps[i].finished_at, error |-> steps[i].error]]

\* C30: mark_step_completed and mark_step_failed of the state store and
\* step_finished of the manifest change the most recent running record of
\* the given name and no other record, earlier running records of the name
\* included; with no running record of the name no record changes.
C30_OneRecordUpdated ==
    [][\A step_name \in StepNames, end \in Terminals, fault \in WriteFaults :
          StepFinishedWith(step_name, end, fault) =>
            /\ OneRecordChanged(manifest.steps, manifest'.steps, step_name)
            /\ LET before == AsStateSteps(manifest.steps)
                   st == [NoDoc EXCEPT !.steps = before] IN
               /\ OneRecordChanged(before,
                                   mark_step_completed(st, step_name).steps, step_name)
               /\ OneRecordChanged(before,
                                   mark_step_failed(st, step_name, "error").steps,
                                   step_name)]_vars

\* two records of one name were running and only the later one is finished
C30_Witness ==
    /\ Len(manifest.steps) = 2
    /\ manifest.steps[1].name = manifest.steps[2].name
    /\ manifest.steps[1].status = "running"
    /\ manifest.steps[2].status = "failed"

\* a step entry with both timestamps and a terminal status
Closed(step) ==
    /\ step.status # "running"
    /\ step.started_at = "set"
    /\ step.finished_at = "set"

\* C31: at the moment finalize is called every step entry of the manifest
\* has started_at and finished_at set and a terminal status.
C31_StepsClosedAtFinalize ==
    [][\A end \in RunEnds, fault \in WriteFaults :
          FinalizeWith(end, fault) =>
              \A i \in DOMAIN manifest.steps : Closed(manifest.steps[i])]_vars

\* C32: no failure of a file operation of write() aborts a manifest mutator:
\* each mutator returns normally, with a warning at most.
C32_WriteFailureNeverAborts ==
    mf_ret \in {"none", "ok", "warned"}

\* =====================================================================
\* CommandRunner.run (services/command_runner.py)
\* =====================================================================
\* what one subprocess.run of the command can do
Exits == [kind : {"exit"}, returncode : {0, 1, 2}, stderr : {"", "boom"}]
Raises(kind) == [kind |-> kind, returncode |-> -1, stderr |-> ""]
Executions(with_timeout) ==
    Exits \cup {Raises("FileNotFoundError"), Raises("Exception")}
          \cup (IF with_timeout THEN {Raises("TimeoutExpired")} ELSE {})

CommandArgs ==
    [check : BOOLEAN, capture_output : BOOLEAN, retry_count : (-1)..MaxRetryCount,
     retry_codes : {{}, {1}, {1, 2}}, has_timeout : BOOLEAN]
NoArgs == [check |-> FALSE, capture_output |-> FALSE, retry_count |-> 0,
           retry_codes |-> {}, has_timeout |-> FALSE]

NoResult == [returncode |-> -1, stderr |-> ""]
NoFailure == [kind |-> "none", returncode |-> -1, stderr |-> ""]

\* command_runner.py 31
cr_max_attempts(args) == IF args.retry_count + 1 > 1 THEN args.retry_count + 1 ELSE 1

\* a retry of any non-zero exit while attempts remain
can_retry_AnyCode(args, attempt_no, returncode) ==
    attempt_no < cr_max_attempts(args)

\* command_runner.py 74-76
can_retry(args, attempt_no, returncode) ==
    /\ attempt_no < cr_max_attempts(args)
    /\ (args.retry_codes = {} \/ returncode \in args.retry_codes)

\* a timeout retried under the rule of the exit codes
timeout_can_retry_ByCodes(args, attempt_no) ==
    attempt_no < cr_max_attempts(args) /\ args.retry_codes = {}

\* command_runner.py 47
timeout_can_retry(args, attempt_no) == attempt_no < cr_max_attempts(args)

\* command_runner.py 69-72: the message of a non-zero exit
FailureMessage(args, done) ==
    [kind |-> "Command failed", returncode |-> done.returncode,
     stderr |-> IF args.capture_output THEN done.stderr ELSE ""]

\* a final exit that is returned whatever check says
final_exit_NoCheck(args, done) ==
    [pc |-> "returned", result |-> [returncode |-> done.returncode, stderr |-> done.stderr],
     err |-> NoFailure]

\* command_runner.py 88-92: the end of run after a non-zero exit that is not
\* retried
final_exit(args, done) ==
    IF args.check
    THEN [pc |-> "raised", result |-> NoResult, err |-> FailureMessage(args, done)]
    ELSE [pc |-> "returned",
          result |-> [returncode |-> done.returncode, stderr |-> done.stderr],
          err |-> NoFailure]

CommandInit ==
    /\ cr_args \in CommandArgs
    /\ cr_attempt = 1
    /\ cr_pc = "loop"
    /\ cr_result = NoResult
    /\ cr_err = NoFailure
    /\ cr_log = << >>

\* no command is running
CommandIdle ==
    /\ cr_args = NoArgs
    /\ cr_attempt = 1
    /\ cr_pc = "off"
    /\ cr_result = NoResult
    /\ cr_err = NoFailure
    /\ cr_log = << >>

LaterIdle == RestoreIdle /\ CommandIdle /\ ManifestIdle /\ CacheIdle /\ VersionProbeIdle

Ends(how, result, err) ==
    /\ cr_pc' = how
    /\ cr_result' = result
    /\ cr_err' = err
    /\ UNCHANGED cr_attempt

Retries ==
    /\ cr_attempt' = cr_attempt + 1
    /\ UNCHANGED <<cr_pc, cr_result, cr_err>>

\* one turn of the loop over attempt
RunCommand ==
    /\ cr_pc = "loop"
    /\ cr_attempt <= cr_max_attempts(cr_args)
    /\ \E done \in Executions(cr_args.has_timeout) :
        /\ cr_log' = Append(cr_log, done)
        /\ CASE done.kind = "FileNotFoundError" ->
                  Ends("raised", NoResult,
                       [kind |-> "Required command not found", returncode |-> -1,
                        stderr |-> ""])
             [] done.kind = "Exception" ->
                  Ends("raised", NoResult,
                       [kind |-> "Failed to execute command", returncode |-> -1,
                        stderr |-> ""])
             [] done.kind = "TimeoutExpired" ->
                  IF timeout_can_retry(cr_args, cr_attempt)
                  THEN Retries
                  ELSE Ends("raised", NoResult,
                            [kind |-> "Command timed out", returncode |-> -1,
                             stderr |-> ""])
             [] done.kind = "exit" ->
                  IF done.returncode = 0
                  THEN Ends("returned",
                            [returncode |-> 0, stderr |-> done.stderr], NoFailure)
                  ELSE IF can_retry(cr_args, cr_attempt, done.returncode)
                  THEN Retries
                  ELSE LET end == final_exit(cr_args, done) IN
                       Ends(end.pc, end.result, end.err)
    /\ UNCHANGED cr_args
    /\ UNCHANGED <<runVars, envVars, stepVars, stateVars, archiveVars, netVars, ctxVars,
                   dbVars, mfVars, cacheVars, vpVars>>

CommandNext == RunCommand

\* ----------------------------------------- properties of CommandRunner
\* max(1, retry_count + 1)
Allowed == IF cr_args.retry_count >= 1 THEN cr_args.retry_count + 1 ELSE 1

\* execution i is followed by another execution of the command
RunsAgain(i) == i < Len(cr_log) \/ (i = Len(cr_log) /\ cr_pc = "loop")

NonZeroExit(i) == cr_log[i].kind = "exit" /\ cr_log[i].returncode # 0

\* C27: run executes the command at most max(1, retry_count + 1) times and
\* stops at the first zero exit; after a non-zero exit it runs the command
\* again if and only if attempts remain and retry_codes is empty or holds the
\* exit code.
C27_RetryPolicy ==
    /\ Len(cr_log) <= Allowed
    /\ \A i \in DOMAIN cr_log :
          /\ (cr_log[i].kind = "exit" /\ cr_log[i].returncode = 0) =>
                /\ i = Len(cr_log)
                /\ cr_pc = "returned"
                /\ cr_result.returncode = 0
          /\ NonZeroExit(i) =>
                (RunsAgain(i) <=>
                    /\ i < Allowed
                    /\ (cr_args.retry_codes = {}
                          \/ cr_log[i].returncode \in cr_args.retry_codes))

\* exit code 1 was retried, exit code 2 is not in retry_codes and ended the run
C27_Witness ==
    /\ cr_args.retry_count = 2
    /\ cr_args.retry_codes = {1}
    /\ Len(cr_log) = 2
    /\ cr_log[1].returncode = 1
    /\ cr_log[2].returncode = 2
    /\ cr_pc \in {"returned", "raised"}

\* C28: a command that times out is run again when retries remain, whatever
\* retry_codes holds; when none remains run fails with a timed-out error,
\* also when check is false.
C28_TimeoutRetried ==
    \A i \in DOMAIN cr_log :
        (cr_log[i].kind = "TimeoutExpired") =>
            IF i < Allowed
            THEN RunsAgain(i)
            ELSE /\ i = Len(cr_log)
                 /\ cr_pc = "raised"
                 /\ cr_err.kind = "Command timed out"

\* with retry codes given and check false, a timeout was retried and the last
\* allowed attempt timed out as well
C28_Witness ==
    /\ ~cr_args.check
    /\ cr_args.retry_codes = {1}
    /\ cr_args.retry_count = 1
    /\ Len(cr_log) = 2
    /\ cr_log[1].kind = "TimeoutExpired"
    /\ cr_log[2].kind = "TimeoutExpired"
    /\ cr_pc = "raised"

\* the run is over and its last execution exited with a non-zero code
FinalNonZero ==
    /\ cr_pc \in {"returned", "raised"}
    /\ cr_log # << >>
    /\ NonZeroExit(Len(cr_log))

\* C29: when the final exit is non-zero, run raises an error with the
\* command's exit code and the captured stderr if check is set, and returns
\* the record with that code if check is not set; it never returns a
\* non-zero record when check is set.
C29_CheckedFailure ==
    /\ FinalNonZero =>
          LET last == cr_log[Len(cr_log)] IN
          IF cr_args.check
          THEN /\ cr_pc = "raised"
               /\ cr_err.kind = "Command failed"
               /\ cr_err.returncode = last.returncode
               /\ cr_args.capture_output => cr_err.stderr = last.stderr
          ELSE /\ cr_pc = "returned"
               /\ cr_result.returncode = last.returncode
    /\ (cr_pc = "returned" /\ cr_args.check) => cr_result.returncode = 0

\* a checked command failed on its last allowed attempt with stderr captured
C29_Witness ==
    /\ cr_args.check
    /\ cr_args.capture_output
    /\ cr_args.retry_count = 1
    /\ Len(cr_log) = 2
    /\ cr_log[2] = [kind |-> "exit", returncode |-> 2, stderr |-> "boom"]
    /\ cr_pc = "raised"
    /\ cr_err = [kind |-> "Command failed", returncode |-> 2, stderr |-> "boom"]

\* =====================================================================
\* ArchiveService (services/archive.py)
\* =====================================================================
\* A member name is the sequence of its path components and separators; a
\* path on disk is the sequence of its components below the root.
MaxMembers == 2

SLASH == "/"
BACKSLASH == "\\"

\* member.filename
MemberNames ==
    { <<"a">>,
      <<"a", SLASH, "a">>,
      <<"..", SLASH, "a">>,
      <<"a", SLASH, "..", SLASH, "..", SLASH, "a">>,
      <<SLASH, "a">>,
      <<"..", BACKSLASH, "a">>,
      <<"a", BACKSLASH, "a">>,
      <<"link", SLASH, "a">> }

\* the high 16 bits of member.external_attr: the Unix mode of the member
S_IFLNK == 40960     \* 0o120000
UnixModes == { 0, 33188, 16877, 41471 }   \* none, 0o100644, 0o040755, 0o120777

Members == [filename : MemberNames, mode : UnixModes]

\* mode & 0o170000 for a 16-bit mode: the four highest bits
file_type(member) == ((member.mode \div 4096) % 16) * 4096

\* Path(destination_dir).resolve()
base == <<"dest">>
\* the link the destination may hold, and the directory it points to
LinkPath == <<"dest", "link">>
LinkTarget == <<"outside">>

\* member.filename.replace("\\", "/")
normalized_name(filename) ==
    [i \in DOMAIN filename |-> IF filename[i] = BACKSLASH THEN SLASH ELSE filename[i]]

RECURSIVE Walk(_, _, _)
\* Path.resolve(): drops "..", follows the links on disk
Walk(cur, parts, link) ==
    IF parts = << >> THEN cur
    ELSE LET part == Head(parts)
             step == IF part = ".."
                     THEN (IF cur = << >> THEN << >> ELSE SubSeq(cur, 1, Len(cur) - 1))
                     ELSE IF link /\ Append(cur, part) = LinkPath THEN LinkTarget
                     ELSE Append(cur, part)
         IN  Walk(step, Tail(parts), link)

\* (base / name).resolve(): an absolute name replaces base
target_path(name, link) ==
    LET parts == SelectSeq(name, LAMBDA t : t # SLASH)
        start == IF name # << >> /\ name[1] = SLASH THEN << >> ELSE base
    IN  Walk(start, parts, link)

\* os.path.commonpath([base_dir, candidate]) == base_dir
is_within_dir(base_dir, candidate) ==
    /\ Len(base_dir) <= Len(candidate)
    /\ SubSeq(candidate, 1, Len(base_dir)) = base_dir

\* the audit without the test of the file type
AuditError_NoLinkCheck(member, link) ==
    IF ~is_within_dir(base, target_path(normalized_name(member.filename), link))
    THEN "Unsafe ZIP entry detected"
    ELSE "none"

\* the body of the first loop: the error the audit of one member raises
AuditError(member, link) ==
    IF ~is_within_dir(base, target_path(normalized_name(member.filename), link))
    THEN "Unsafe ZIP entry detected"
    ELSE IF file_type(member) = S_IFLNK
    THEN "Unsafe ZIP entry detected: symbolic link"
    ELSE "none"

Archives ==
    UNION { [1..n -> Members] : n \in 0..MaxMembers }

ArchiveInit ==
    /\ archive \in Archives
    /\ bad_zip \in BOOLEAN
    /\ link_exists \in BOOLEAN
    /\ ar_pc = "open"
    /\ ar_i = 1
    /\ ar_err = "none"
    /\ written = {}

\* safe_extract_zip is not running
ArchiveIdle ==
    /\ archive = << >>
    /\ bad_zip = FALSE
    /\ link_exists = FALSE
    /\ ar_pc = "off"
    /\ ar_i = 1
    /\ ar_err = "none"
    /\ written = {}

\* where a loop of safe_extract_zip goes after member i
AfterMember(i, loop, after) == IF i <= Len(archive) THEN loop ELSE after

\* zipfile.ZipFile(zip_path, "r"), BadZipFile handled at line 52
OpenZip ==
    /\ ar_pc = "open"
    /\ IF bad_zip
       THEN /\ ar_pc' = "failed"
            /\ ar_err' = "Invalid ZIP archive"
       ELSE /\ ar_pc' = AfterMember(1, "audit", "done")
            /\ ar_err' = ar_err
    /\ UNCHANGED <<archive, bad_zip, link_exists, ar_i, written>>
    /\ UNCHANGED <<laterVars, runVars, envVars, stepVars, stateVars, netVars, ctxVars>>

\* one turn of the first loop
AuditMember ==
    /\ ar_pc = "audit"
    /\ LET err == AuditError(archive[ar_i], link_exists) IN
       IF err # "none"
       THEN /\ ar_pc' = "failed"
            /\ ar_err' = err
            /\ ar_i' = ar_i
       ELSE /\ ar_pc' = AfterMember(ar_i + 1, "audit", "extract")
            /\ ar_i' = AfterMember(ar_i + 1, ar_i + 1, 1)
            /\ ar_err' = ar_err
    /\ UNCHANGED <<archive, bad_zip, link_exists, written>>
    /\ UNCHANGED <<laterVars, runVars, envVars, stepVars, stateVars, netVars, ctxVars>>

\* one turn of the second loop: mkdir or copy at target_path
ExtractMember ==
    /\ ar_pc = "extract"
    /\ written' = written \cup
          { target_path(normalized_name(archive[ar_i].filename), link_exists) }
    /\ ar_pc' = AfterMember(ar_i + 1, "extract", "done")
    /\ ar_i' = ar_i + 1
    /\ UNCHANGED <<archive, bad_zip, link_exists, ar_err>>
    /\ UNCHANGED <<laterVars, runVars, envVars, stepVars, stateVars, netVars, ctxVars>>

ArchiveNext == OpenZip \/ AuditMember \/ ExtractMember

\* ------------------------------------------------ properties of archive
\* a member that is declared a symbolic link
DeclaredLink(member) == member.mode \div 4096 = 10

\* a member whose extraction path is not below the destination
ResolvesOutside(member) ==
    ~IsPrefix(base, target_path(normalized_name(member.filename), link_exists))

UnsafeMembers ==
    { i \in DOMAIN archive :
        ResolvesOutside(archive[i]) \/ DeclaredLink(archive[i]) }

\* C16: safe_extract_zip writes nothing before every member has been
\* audited; if a member resolves outside the destination directory or is
\* declared a symbolic link the call fails and nothing of the archive is
\* written; otherwise the call completes and every path it wrote lies within
\* the destination directory.
C16_ArchiveSafety ==
    /\ (ar_pc \in {"open", "audit", "failed"}) => written = {}
    /\ (UnsafeMembers # {}) => /\ written = {}
                               /\ ar_pc \in {"open", "audit", "failed"}
    /\ (ar_pc = "failed") => \/ bad_zip
                             \/ /\ ar_i \in UnsafeMembers
                                /\ \A j \in 1..(ar_i - 1) : j \notin UnsafeMembers
    /\ \A p \in written : IsPrefix(base, p)
    /\ (ar_pc = "done") =>
          /\ UnsafeMembers = {}
          /\ written = { target_path(normalized_name(archive[i].filename), link_exists) :
                           i \in DOMAIN archive }

\* a harmless member followed by a traversal written with a backslash
C16_Witness ==
    /\ ar_pc = "failed"
    /\ ~bad_zip
    /\ Len(archive) = 2
    /\ archive[1].filename = <<"a", SLASH, "a">>
    /\ archive[2].filename = <<"..", BACKSLASH, "a">>
    /\ archive[2].mode = 33188
    /\ written = {}

\* =====================================================================
\* ValidationService (services/validation.py) and DownloadService
\* (services/download.py)
\* =====================================================================
\* A location is the scheme urlparse finds in it ("" for a local path), the
\* suffix of its path, and what the path is on disk ("remote" for a URL).
MaxChunks == 2

Schemes == {"http", "HTTP", "https"}
Suffixes == {".dump", ".zip", ".sql"}
SOURCE_EXTENSIONS == {".zip", ".dump"}
ADDONS_ZIP_EXTENSION == ".zip"

UrlLocations == [scheme : Schemes, ext : Suffixes, kind : {"remote"}]
LocalLocations == [scheme : {""}, ext : Suffixes, kind : {"missing", "file", "dir"}]
Locations == UrlLocations \cup LocalLocations
NoLocation == [scheme |-> "", ext |-> "", kind |-> "none"]

\* str.lower() on a scheme
scheme_lower(s) == IF s = "HTTP" THEN "http" ELSE s

is_url(location) == scheme_lower(location.scheme) \in {"http", "https"}

Warning(location) == [ev |-> "warning", method |-> "none", location |-> location]
Request(method, location) == [ev |-> "request", method |-> method, location |-> location]

\* enforce_https_policy that warns and never raises
enforce_https_policy_NoRaise(location, allow) ==
    IF is_url(location) /\ scheme_lower(location.scheme) = "http"
    THEN [raised |-> FALSE, log |-> <<Warning(location)>>]
    ELSE [raised |-> FALSE, log |-> << >>]

\* whether the policy raises, and what it logged when it returns
enforce_https_policy(location, allow) ==
    IF ~is_url(location) THEN [raised |-> FALSE, log |-> << >>]
    ELSE IF scheme_lower(location.scheme) = "http" /\ ~allow
    THEN [raised |-> TRUE, log |-> << >>]
    ELSE IF scheme_lower(location.scheme) = "http" /\ allow
    THEN [raised |-> FALSE, log |-> <<Warning(location)>>]
    ELSE [raised |-> FALSE, log |-> << >>]

Ended(error, log) == [error |-> error, log |-> log]

\* probe_url: the policy, then HEAD, then GET when HEAD failed
probe_url(location, allow, head_ok, get_ok) ==
    LET policy == enforce_https_policy(location, allow)
        head == policy.log \o <<Request("HEAD", location)>>
        get == head \o <<Request("GET", location)>>
    IN  IF policy.raised THEN Ended("insecure_http", << >>)
        ELSE IF head_ok THEN Ended("none", head)
        ELSE IF get_ok THEN Ended("none", get)
        ELSE Ended("not_accessible", get)

\* what the network and the addons directory answer during one validation
ValidationAnswers ==
    [src_head : BOOLEAN, src_get : BOOLEAN, add_head : BOOLEAN,
     add_get : BOOLEAN, structure_ok : BOOLEAN]

validate_source_accessibility(src, addons, allow, o) ==
    LET s == IF src.ext \notin SOURCE_EXTENSIONS
                 THEN Ended("invalid_source_format", << >>)
             ELSE IF is_url(src) THEN probe_url(src, allow, o.src_head, o.src_get)
             ELSE IF src.kind = "missing" THEN Ended("source_not_found", << >>)
             ELSE IF src.kind # "file" THEN Ended("source_not_a_file", << >>)
             ELSE Ended("none", << >>)
        a == IF addons = NoLocation THEN Ended("none", << >>)
             ELSE IF is_url(addons)
                 THEN IF addons.ext # ADDONS_ZIP_EXTENSION
                      THEN Ended("invalid_addons_format", << >>)
                      ELSE probe_url(addons, allow, o.add_head, o.add_get)
             ELSE IF addons.kind = "missing" THEN Ended("extra_addons_not_found", << >>)
             ELSE IF addons.kind = "dir"
                 THEN IF o.structure_ok THEN Ended("none", << >>)
                      ELSE Ended("invalid_addons_structure", << >>)
             ELSE IF addons.kind = "file"
                 THEN IF addons.ext # ADDONS_ZIP_EXTENSION
                      THEN Ended("invalid_addons_format", << >>)
                      ELSE Ended("none", << >>)
             ELSE Ended("invalid_addons_source", << >>)
    IN  IF s.error # "none" THEN s ELSE Ended(a.error, s.log \o a.log)

\* --- download_file
\* bytes are 1 and 2; a digest is a residue
Digests == 0..2
NoChecksum == -1
NoHasher == -1
Chunks == { << >>, <<1>>, <<2>> }
Streams == UNION { [1..n -> Chunks] : n \in 0..MaxChunks }

RECURSIVE sha256_update(_, _)
\* hasher.update(data)
sha256_update(h, data) ==
    IF data = << >> THEN h
    ELSE sha256_update((2 * h + Head(data)) % Cardinality(Digests), Tail(data))

\* hashlib.sha256(data).hexdigest()
sha256(data) == sha256_update(0, data)

RECURSIVE Receive(_, _, _)
\* the loop over response.iter_content: the file written and the hasher
Receive(stream, content, hasher) ==
    IF stream = << >> THEN [content |-> content, hasher |-> hasher]
    ELSE LET chunk == Head(stream) IN
         IF chunk = << >> THEN Receive(Tail(stream), content, hasher)
         ELSE Receive(Tail(stream), content \o chunk,
                      IF hasher # NoHasher THEN sha256_update(hasher, chunk)
                      ELSE hasher)

NoDest == [exists |-> FALSE, content |-> << >>]
File(content) == [exists |-> TRUE, content |-> content]

DownloadCalls ==
    [url : UrlLocations, expected : {NoChecksum} \cup Digests,
     failures : 0..(MaxRetryCount + 1), broken : BOOLEAN]
NoCall == [url |-> NoLocation, expected |-> NoChecksum, failures |-> 0,
           broken |-> FALSE]

Downloaded(error, log, dest, remove_failed) ==
    [error |-> error, log |-> log, dest |-> dest, remove_failed |-> remove_failed]

\* the comparison of the digests left out
download_file_NoCompare(call, allow, stream, remove_ok, old) ==
    LET policy == enforce_https_policy(call.url, allow)
        log == policy.log \o <<Request("GET", call.url)>>
        got == Receive(stream, << >>, NoHasher)
    IN  IF policy.raised THEN Downloaded("insecure_http", << >>, old, FALSE)
        ELSE IF call.failures > 0 THEN Downloaded("download_failed", log, old, FALSE)
        ELSE IF call.broken
        THEN Downloaded("download_failed", log, File(got.content), FALSE)
        ELSE Downloaded("none", log, File(got.content), FALSE)

\* download_file(url, dest_path, description, expected_sha256): the first
\* call.failures requests the transport answers fail, stream is what
\* iter_content yields, call.broken says it then raises RequestException
download_file(call, allow, stream, remove_ok, old) ==
    LET policy == enforce_https_policy(call.url, allow)
        log == policy.log \o <<Request("GET", call.url)>>
        hasher == IF call.expected # NoChecksum THEN sha256(<< >>) ELSE NoHasher
        got == Receive(stream, << >>, hasher)
    IN  IF policy.raised THEN Downloaded("insecure_http", << >>, old, FALSE)
        ELSE IF call.failures > 0 THEN Downloaded("download_failed", log, old, FALSE)
        ELSE IF call.broken
        THEN Downloaded("download_failed", log, File(got.content), FALSE)
        ELSE IF hasher # NoHasher /\ got.hasher # call.expected
        THEN Downloaded("checksum_mismatch", log,
                        IF remove_ok THEN NoDest ELSE File(got.content), ~remove_ok)
        ELSE Downloaded("none", log, File(got.content), FALSE)

NetInit ==
    /\ source \in Locations
    /\ extra_addons \in {NoLocation} \cup Locations
    /\ allow_insecure_http \in BOOLEAN
    /\ dl_retry_count \in 0..MaxRetryCount
    /\ n_pc = "ready"
    /\ v_error = "none"
    /\ v_log = << >>
    /\ dl_call = NoCall
    /\ dl_error = "none"
    /\ dl_log = << >>
    /\ dl_remove_failed = FALSE
    /\ dest_file = NoDest

\* neither service is in use
NetIdle ==
    /\ source = NoLocation
    /\ extra_addons = NoLocation
    /\ allow_insecure_http = FALSE
    /\ dl_retry_count = 0
    /\ n_pc = "off"
    /\ v_error = "none"
    /\ v_log = << >>
    /\ dl_call = NoCall
    /\ dl_error = "none"
    /\ dl_log = << >>
    /\ dl_remove_failed = FALSE
    /\ dest_file = NoDest

ValidateSourceAccessibility ==
    /\ n_pc = "ready"
    /\ \E o \in ValidationAnswers :
         LET r == validate_source_accessibility(source, extra_addons,
                                                allow_insecure_http, o) IN
         /\ v_error' = r.error
         /\ v_log' = r.log
    /\ n_pc' = "validated"
    /\ UNCHANGED <<source, extra_addons, allow_insecure_http, dl_retry_count,
                   dl_call, dl_error, dl_log, dl_remove_failed, dest_file>>
    /\ UNCHANGED <<laterVars, runVars, envVars, stepVars, stateVars, archiveVars, ctxVars>>

\* what iter_content may yield: nothing is read from a request that failed
StreamsOf(call) == IF call.failures = 0 THEN Streams ELSE { << >> }

\* whether os.remove succeeds: it is called only when a checksum is expected
RemovalsOf(call) == IF call.expected # NoChecksum THEN BOOLEAN ELSE { TRUE }

\* one call of download_file for url
Download(url) ==
    /\ n_pc = "ready"
    /\ \E expected \in {NoChecksum} \cup Digests, failures \in 0..(MaxRetryCount + 1),
          broken \in BOOLEAN :
         LET call == [url |-> url, expected |-> expected, failures |-> failures,
                      broken |-> broken] IN
         \E stream \in StreamsOf(call), remove_ok \in RemovalsOf(call) :
            LET r == download_file(call, allow_insecure_http, stream, remove_ok,
                                   dest_file) IN
            /\ dl_call' = call
            /\ dl_error' = r.error
            /\ dl_log' = r.log
            /\ dl_remove_failed' = r.remove_failed
            /\ dest_file' = r.dest
    /\ n_pc' = "downloaded"
    /\ UNCHANGED <<source, extra_addons, allow_insecure_http, dl_retry_count,
                   v_error, v_log>>
    /\ UNCHANGED <<laterVars, runVars, envVars, stepVars, stateVars, archiveVars, ctxVars>>

\* download_or_copy_source(source, source_dir, source_sha256)
DownloadOrCopySource ==
    IF is_url(source) THEN Download(source)
    ELSE /\ n_pc = "ready"
         /\ n_pc' = "downloaded"
         /\ UNCHANGED <<source, extra_addons, allow_insecure_http, dl_retry_count,
                        v_error, v_log, dl_call, dl_error, dl_log,
                        dl_remove_failed, dest_file>>
         /\ UNCHANGED <<laterVars, runVars, envVars, stepVars, stateVars, archiveVars, ctxVars>>

\* download_file called for the extra addons URL
DownloadFile ==
    /\ is_url(extra_addons)
    /\ Download(extra_addons)

NetNext == ValidateSourceAccessibility \/ DownloadOrCopySource \/ DownloadFile

\* ---------------------------------- properties of validation and download
RequestIdx(log) == { i \in DOMAIN log : log[i].ev = "request" }

\* an http:// location
Plaintext(location) == location.scheme \in {"http", "HTTP"}

\* every request of log goes to an https location, or to an http location
\* under the opt-in and after the warning about that location
PolicyRespected(log) ==
    \A i \in RequestIdx(log) :
        \/ log[i].location.scheme = "https"
        \/ /\ allow_insecure_http
           /\ \E j \in 1..(i - 1) : log[j] = Warning(log[i].location)

\* C17 as stated: with an http:// source or addons location and no opt-in,
\* validation fails with the insecure-HTTP error before any network request,
\* and so does a download of an http:// location.
C17_InsecureHttpFailsBeforeAnyRequest ==
    /\ (n_pc = "validated" /\ ~allow_insecure_http
            /\ (Plaintext(source) \/ Plaintext(extra_addons))) =>
          /\ v_error = "insecure_http"
          /\ v_log = << >>
    /\ (n_pc = "downloaded" /\ ~allow_insecure_http /\ Plaintext(dl_call.url)) =>
          /\ dl_error = "insecure_http"
          /\ dl_log = << >>

\* C17, amended: no request ever goes to an http:// location without the
\* opt-in, and under the opt-in it follows a warning about that location. A
\* download of an http:// location without the opt-in fails with the
\* insecure-HTTP error before any request and leaves the destination alone;
\* so does the validation of an http:// source with a supported suffix. An
\* http:// addons location is reached only after the source has been checked
\* (an https source has been probed by then): the validation fails, with the
\* insecure-HTTP error when the source passed and the addons suffix is .zip.
C17_NoPlaintextRequestWithoutOptIn ==
    /\ PolicyRespected(v_log)
    /\ PolicyRespected(dl_log)
    /\ (n_pc = "downloaded" /\ ~allow_insecure_http /\ Plaintext(dl_call.url)) =>
          /\ dl_error = "insecure_http"
          /\ dl_log = << >>
          /\ dest_file = NoDest
    /\ (n_pc = "downloaded" /\ allow_insecure_http /\ Plaintext(dl_call.url)) =>
          dl_log = <<Warning(dl_call.url), Request("GET", dl_call.url)>>
    /\ (n_pc = "validated" /\ ~allow_insecure_http /\ Plaintext(source)
            /\ source.ext \in SOURCE_EXTENSIONS) =>
          /\ v_error = "insecure_http"
          /\ v_log = << >>
    /\ (n_pc = "validated" /\ allow_insecure_http /\ Plaintext(source)
            /\ source.ext \in SOURCE_EXTENSIONS) =>
          /\ Len(v_log) >= 2
          /\ v_log[1] = Warning(source)
          /\ v_log[2] = Request("HEAD", source)
    /\ (n_pc = "validated" /\ ~allow_insecure_http /\ Plaintext(extra_addons)) =>
          /\ v_error # "none"
          /\ \A i \in RequestIdx(v_log) : v_log[i].location = source
          /\ (extra_addons.ext = ADDONS_ZIP_EXTENSION
                /\ v_error \notin {"invalid_source_format", "not_accessible",
                                   "source_not_found", "source_not_a_file"}) =>
                v_error = "insecure_http"

\* an https source was probed, then the http addons location was refused
C17_Witness ==
    /\ n_pc = "validated"
    /\ ~allow_insecure_http
    /\ source.scheme = "https"
    /\ extra_addons = [scheme |-> "HTTP", ext |-> ".zip", kind |-> "remote"]
    /\ v_error = "insecure_http"
    /\ v_log = <<Request("HEAD", source), Request("GET", source)>>

\* the call was made with an expected checksum and its stream ended well
Compared ==
    /\ n_pc = "downloaded"
    /\ dl_call.expected # NoChecksum
    /\ dl_error \in {"none", "checksum_mismatch"}

\* C18 as stated: a download_file that returns normally with an expected
\* checksum left a file whose SHA-256 is that checksum; on a mismatch the
\* destination file is removed and the call fails with the mismatch error.
C18_ChecksumLaw ==
    Compared =>
        /\ (dl_error = "none") =>
              /\ dest_file.exists
              /\ sha256(dest_file.content) = dl_call.expected
        /\ (dl_error = "checksum_mismatch") => ~dest_file.exists

\* C18, amended: as above, except that on a mismatch the removal of the
\* destination file is attempted and an OSError of os.remove is ignored: the
\* file, whose SHA-256 is not the expected one, then stays while the call
\* still fails with the mismatch error.
C18_ChecksumLawRemovalAttempted ==
    Compared =>
        /\ (dl_error = "none") =>
              /\ dest_file.exists
              /\ sha256(dest_file.content) = dl_call.expected
        /\ (dl_error = "checksum_mismatch") =>
              /\ dest_file.exists <=> dl_remove_failed
              /\ dest_file.exists => sha256(dest_file.content) # dl_call.expected

\* two chunks were hashed and written, and the digest was the expected one
C18_Witness ==
    /\ n_pc = "downloaded"
    /\ dl_error = "none"
    /\ dl_call.expected = sha256(<<2, 1>>)
    /\ dest_file = File(<<2, 1>>)

\* C19: with retry count n, a download whose first k <= n requests fail and
\* whose next request succeeds completes after k + 1 requests.
C19_DownloadRetries ==
    (/\ n_pc = "downloaded"
     /\ is_url(dl_call.url)
     /\ dl_error \notin {"insecure_http", "checksum_mismatch"}
     /\ ~dl_call.broken
     /\ dl_call.failures <= dl_retry_count) =>
        /\ dl_error = "none"
        /\ Cardinality(RequestIdx(dl_log)) = dl_call.failures + 1

\* =====================================================================
\* OdooUpgrader._build_run_context (core.py)
\* =====================================================================
\* A string is the sequence of its pieces: a literal part is one piece and
\* every character of the run id is one piece.
MaxRuns == 2

RUN_ID_LENGTH == 10
USER_ID_LENGTH == 8

HexDigits == {"0", "f"}

\* uuid.uuid4().hex[:10]; the ids tried differ in the first and in the last
\* three characters
RunIds ==
    { id \in [1..RUN_ID_LENGTH -> HexDigits] :
        \A i \in 2..(USER_ID_LENGTH - 1) : id[i] = "0" }

\* secrets.token_hex(16)
Passwords == {"p", "q"}

\* the prefix built from the characters the database user is built from
_build_run_context_ShortPrefix(run_id, password) ==
    LET prefix == <<"odooupgrader_">> \o SubSeq(run_id, 1, USER_ID_LENGTH) IN
    [run_id |-> run_id,
     db_container_name |-> prefix \o <<"_db">>,
     upgrade_container_name |-> prefix \o <<"_upgrade">>,
     network_name |-> prefix \o <<"_net">>,
     volume_name |-> prefix \o <<"_pgdata">>,
     postgres_user |-> <<"odoo_">> \o SubSeq(run_id, 1, USER_ID_LENGTH),
     postgres_password |-> password,
     postgres_bootstrap_db |-> "odoo",
     target_database |-> "database"]

_build_run_context(run_id, password) ==
    LET prefix == <<"odooupgrader_">> \o run_id IN
    [run_id |-> run_id,
     db_container_name |-> prefix \o <<"_db">>,
     upgrade_container_name |-> prefix \o <<"_upgrade">>,
     network_name |-> prefix \o <<"_net">>,
     volume_name |-> prefix \o <<"_pgdata">>,
     postgres_user |-> <<"odoo_">> \o SubSeq(run_id, 1, USER_ID_LENGTH),
     postgres_password |-> password,
     postgres_bootstrap_db |-> "odoo",
     target_database |-> "database"]

ContextInit == contexts = << >>

\* no run context has been built
ContextIdle == contexts = << >>

AuxIdle == ArchiveIdle /\ NetIdle /\ ContextIdle /\ LaterIdle

\* OdooUpgrader.__init__ of one more run on the host
BuildRunContext ==
    /\ Len(contexts) < MaxRuns
    /\ \E run_id \in RunIds, password \in Passwords :
         contexts' = Append(contexts, _build_run_context(run_id, password))
    /\ UNCHANGED <<laterVars, runVars, envVars, stepVars, stateVars, archiveVars, netVars>>

ContextNext == BuildRunContext

\* ------------------------------------------- properties of run contexts
\* pairs of runs whose run ids differ
DistinctRuns ==
    { p \in (DOMAIN contexts) \X (DOMAIN contexts) :
        contexts[p[1]].run_id # contexts[p[2]].run_id }

DockerNamesDiffer(A, B) ==
    /\ A.db_container_name # B.db_container_name
    /\ A.upgrade_container_name # B.upgrade_container_name
    /\ A.network_name # B.network_name
    /\ A.volume_name # B.volume_name

InitRun == RunInit /\ EnvInit /\ StepIdle /\ StateIdle /\ AuxIdle

SpecRun == InitRun /\ [][RunNext]_vars

\* one process that is not killed: run() keeps executing until it returns
RunToEnd ==
    \/ CheckTarget
    \/ PipelineStep
    \/ ProbeAfterRestore
    \/ LoopHead
    \/ UpgradeStep
    \/ Reprobe
    \/ FinalizePackage
    \/ CleanupArtifacts
    \/ Finalise

SpecRunFair == InitRun /\ [][RunToEnd]_vars /\ WF_vars(RunToEnd)

InitStep == RunIdle /\ EnvInit /\ StepInit /\ StateIdle /\ AuxIdle

SpecStep == InitStep /\ [][StepNext]_vars

InitState == RunIdle /\ EnvInit /\ StepIdle /\ StateInit /\ AuxIdle

SpecState == InitState /\ [][StateNext]_vars

InitCleanup == RunIdle /\ InitAnyDirectory /\ StepIdle /\ StateIdle /\ AuxIdle

SpecCleanup == InitCleanup /\ [][CleanupNext]_vars

InitArchive ==
    RunIdle /\ EnvInit /\ StepIdle /\ StateIdle /\ ArchiveInit /\ NetIdle /\ ContextIdle
    /\ LaterIdle

SpecArchive == InitArchive /\ [][ArchiveNext]_vars

InitNet ==
    RunIdle /\ EnvInit /\ StepIdle /\ StateIdle /\ ArchiveIdle /\ NetInit /\ ContextIdle
    /\ LaterIdle

SpecNet == InitNet /\ [][NetNext]_vars

InitContext ==
    RunIdle /\ EnvInit /\ StepIdle /\ StateIdle /\ ArchiveIdle /\ NetIdle /\ ContextInit
    /\ LaterIdle

SpecContext == InitContext /\ [][ContextNext]_vars

InitRestore ==
    /\ RunIdle /\ EnvInit /\ StepIdle /\ StateIdle
    /\ ArchiveIdle /\ NetIdle /\ ContextIdle
    /\ RestoreInit /\ CommandIdle /\ ManifestIdle /\ CacheIdle /\ VersionProbeIdle

SpecRestore == InitRestore /\ [][RestoreNext]_vars

InitCommand ==
    /\ RunIdle /\ EnvInit /\ StepIdle /\ StateIdle
    /\ ArchiveIdle /\ NetIdle /\ ContextIdle
    /\ RestoreIdle /\ CommandInit /\ ManifestIdle /\ CacheIdle /\ VersionProbeIdle

SpecCommand == InitCommand /\ [][CommandNext]_vars

InitManifest ==
    /\ RunIdle /\ EnvInit /\ StepIdle /\ StateIdle
    /\ ArchiveIdle /\ NetIdle /\ ContextIdle
    /\ RestoreIdle /\ CommandIdle /\ ManifestInit /\ CacheIdle /\ VersionProbeIdle

SpecManifest == InitManifest /\ [][ManifestNext]_vars

InitCache ==
    /\ RunIdle /\ EnvInit /\ StepIdle /\ StateIdle
    /\ ArchiveIdle /\ NetIdle /\ ContextIdle
    /\ RestoreIdle /\ CommandIdle /\ ManifestIdle /\ CacheInit /\ VersionProbeIdle

SpecCache == InitCache /\ [][CacheNext]_vars

InitVersionProbe ==
    /\ RunIdle /\ EnvInit /\ StepIdle /\ StateIdle
    /\ ArchiveIdle /\ NetIdle /\ ContextIdle
    /\ RestoreIdle /\ CommandIdle /\ ManifestIdle /\ CacheIdle /\ VersionProbeInit

SpecVersionProbe == InitVersionProbe /\ [][VersionProbeNext]_vars

====
